---- MODULE Spec2Model ----
(***************************************************************************)
(* LabBot: sanity-check / alerting engine (check_sanity, status_error,     *)
(* status_error_off, error_add, error_remove, quiet_hours, silence_errors) *)
(* of src/LabBot.py under a reduced LabBot_config.                         *)
(*                                                                         *)
(* Time is in seconds since Monday 00:00:00 (datetime.weekday() = 0).      *)
(* Sensor values are floats that the code only compares; they are encoded  *)
(* by a strictly increasing map into the integers: a value <= 0 is itself  *)
(* (so the sentinel codes -1000, -2000, ... keep their value), a positive  *)
(* pressure is counted in units of 1e-10 mbar (1e-9 mbar is 10, 8e-8 mbar  *)
(* is 800), a positive temperature in K.                                   *)
(***************************************************************************)
EXTENDS Integers, Sequences, FiniteSets, TLC

VARIABLES
    now,               \* latest value returned by datetime.datetime.now()
    timer,             \* time at which the running threading.Timer calls read_log
    LOG_file,          \* the log file: [ok, ts, data] (last line, or unreadable)
    LOG_last_checked,  \* self.LOG_last_checked (None until a line was read)
    LOG_data,          \* self.LOG_data
    ERRORS_checks,     \* self.ERRORS_checks, in insertion order
    USER_config,       \* self.USER_config: the notification rules of every user
    save_config,       \* self.save_config
    CONFIG_file,       \* cfg.USER_CONFIG_FILE: the pickled ERRORS_checks and USER_config
    cfg_min_count,     \* 'min_count' of ERROR_temperature_afm in cfg.ERROR_LIMITS_MAX
    cycles,            \* number of poll cycles started
    commands,          \* number of chat commands handled
    pending,           \* the poll cycle that is inside check_user_notifications, if any
    hist               \* history: one record per poll cycle and per chat command

vars == <<now, timer, LOG_file, LOG_last_checked, LOG_data, ERRORS_checks,
          USER_config, save_config, CONFIG_file, cfg_min_count, cycles, commands,
          pending, hist>>

----------------------------------------------------------------------------
(* Bounds of the model *)

MaxCycles == 3        \* poll cycles of a behaviour
MaxMinCount == 2      \* largest 'min_count' configured for a rule
MaxFailAt == 2        \* the transport raises at one of the first MaxFailAt deliveries of a cycle
MaxCommands == 1      \* chat commands of a behaviour
MaxNotify == 2        \* chat commands of a behaviour in which a user sets up a rule and re-activates it
MaxRules == 2         \* notification rules of a user in the config file that is loaded

----------------------------------------------------------------------------
(* Configuration *)

LIST_OF_USERS == <<"007", "008">>
Users == {LIST_OF_USERS[i] : i \in DOMAIN LIST_OF_USERS}

READ_LOG_EVERY_SECONDS == 30
WARNING_NOLOG_MINUTES == 10
WARNING_SEND_EVERY_MINUTES == 60

QUIET_TIMES_WEEKDAYS == {0, 1, 2, 3, 4}
QUIET_TIMES_HOURS_START == 8
QUIET_TIMES_HOURS_END == 18

PAFM == "PAFM[mbar]"
TAFM == "TAFM[K]"
Columns == <<PAFM, TAFM>>
ColumnSet == {Columns[i] : i \in DOMAIN Columns}

ERROR_COLUMNS_MUSTHAVE ==
    << [error |-> "ERROR_nolog_pressure_afm", column |-> PAFM],
       [error |-> "ERROR_nolog_temperature_afm", column |-> TAFM] >>

ERROR_LIMITS_MAX ==
    << [error |-> "ERROR_pressure_afm", column |-> PAFM, limits |-> <<10, 800>>],
       [error |-> "ERROR_temperature_afm", column |-> TAFM, limits |-> <<20, 32>>] >>

ERROR_LOWERTHAN ==
    << [column |-> PAFM, value |-> -1000],
       [column |-> TAFM, value |-> -1000] >>

ERROR_LOWERTHAN_VALUES ==
    << [error |-> "ERROR_lowerthan_pressure_afm_error", column |-> PAFM, value |-> -2000],
       [error |-> "ERROR_lowerthan_pressure_afm_off", column |-> PAFM, value |-> -3000] >>

ERROR_LOWERTHAN_DEFAULT == "ERROR_lowerthan"
ERROR_UNKNOWN_VALUES == "ERROR_unknown_values"

VALUES_REPLACE == {-1000, -2000, -3000, -4000, -5000}

Minutes(n) == n * 60
Hours(n) == n * 3600
Days(n) == n * 86400

----------------------------------------------------------------------------
(* Values *)

None == -1

Num(x) == [t |-> "num", v |-> x]
NaN == [t |-> "nan", v |-> 0]
Str(x) == [t |-> "str", v |-> x]
Absent == [t |-> "absent", v |-> 0]

IsNum(x) == x.t = "num"
IsNaN(x) == x.t = "nan"
IsStr(x) == x.t = "str"

In(c, data) == data[c].t # "absent"
Size(data) == Cardinality({c \in ColumnSet : In(c, data)})
EmptyData == [c \in ColumnSet |-> Absent]

\* the value stored with an AlertRecord entry ('value' in error_add)
ValueOf(x) == [t |-> x.t, v |-> x.v, cols |-> <<>>]
ValueEmpty == [t |-> "empty", v |-> 0, cols |-> <<>>]
ValueTime(ts) == [t |-> "time", v |-> ts, cols |-> <<>>]
ValueColumns(cs) == [t |-> "cols", v |-> 0, cols |-> cs]

----------------------------------------------------------------------------
(* ERRORS_checks: a dict in insertion order, rule name -> user -> entry *)

Has(E, error) == \E i \in DOMAIN E : E[i].error = error
Recs(E, error) == E[CHOOSE i \in DOMAIN E : E[i].error = error].recs

HasCfg(table, error) == \E i \in DOMAIN table : table[i].error = error
Cfg(table, error) == table[CHOOSE i \in DOMAIN table : table[i].error = error]
HasColumn(table, c) == \E i \in DOMAIN table : table[i].column = c
OfColumn(table, c) == table[CHOOSE i \in DOMAIN table : table[i].column = c]

MinCountOf(e_dict) ==
    IF e_dict.error = "ERROR_temperature_afm" THEN cfg_min_count ELSE 0

\* variant: the new entries have to wait for one send interval
error_add_waiting(E, error, value, min_count, t) ==
    IF Has(E, error) THEN E
    ELSE Append(E, [error |-> error,
                    recs |-> [u \in Users |->
                        [sendNext |-> t + Minutes(WARNING_SEND_EVERY_MINUTES),
                         timesSent |-> 0,
                         value |-> value]]])

error_add(E, error, value, min_count, t) ==
    IF Has(E, error) THEN E
    ELSE Append(E, [error |-> error,
                    recs |-> [u \in Users |->
                        [sendNext |-> t + (min_count - 1) * Minutes(READ_LOG_EVERY_SECONDS),
                         timesSent |-> 0,
                         value |-> value]]])

\* variant: the record is kept
error_remove_kept(E, error) == E

error_remove(E, error) == SelectSeq(E, LAMBDA x : x.error # error)

\* variant: there are no quiet hours
quiet_hours_never(t) == FALSE

\* variant: the weekday is not looked at
quiet_hours_every_day(t) ==
    LET midnight == t - (t % Days(1))
    IN t > midnight + Hours(QUIET_TIMES_HOURS_START) /\ t < midnight + Hours(QUIET_TIMES_HOURS_END)

quiet_hours(t) ==
    LET midnight == t - (t % Days(1))
        quiet_start == midnight + Hours(QUIET_TIMES_HOURS_START)
        quiet_end == midnight + Hours(QUIET_TIMES_HOURS_END)
        weekday == (t \div Days(1)) % 7
    IN t > quiet_start /\ t < quiet_end /\ weekday \in QUIET_TIMES_WEEKDAYS

\* any(np.isnan(val) for val in data.values()): "true", "false" or "raise"
RECURSIVE AnyNaNFrom(_, _)
AnyNaNFrom(data, i) ==
    IF i > Len(Columns) THEN "false"
    ELSE LET x == data[Columns[i]]
         IN IF ~In(Columns[i], data) THEN AnyNaNFrom(data, i + 1)
            ELSE IF IsStr(x) THEN "raise"
            ELSE IF IsNaN(x) THEN "true"
            ELSE AnyNaNFrom(data, i + 1)
AnyNaN(data) == AnyNaNFrom(data, 1)

\* replace_lowerthan: sentinel codes and nan become display strings, in place
replace_lowerthan(data) ==
    [c \in ColumnSet |->
        IF IsNum(data[c]) /\ data[c].v \in VALUES_REPLACE THEN Str(data[c].v)
        ELSE IF IsNaN(data[c]) THEN Str(0)
        ELSE data[c]]

----------------------------------------------------------------------------
(* check_sanity, first loop: is a rule that is ON not active anymore?       *)
(* "off", "off_quiet", "keep", "unknown", or "raise" (TypeError: a string   *)
(* left in LOG_data by replace_lowerthan is compared with a number)         *)

LowerFoundFrom(data) ==
    \E i \in DOMAIN ERROR_LOWERTHAN :
        LET c == ERROR_LOWERTHAN[i].column
        IN In(c, data) /\ IsNum(data[c]) /\ data[c].v <= ERROR_LOWERTHAN[i].value

LowerRaises(data) ==
    \E i \in DOMAIN ERROR_LOWERTHAN :
        LET c == ERROR_LOWERTHAN[i].column IN In(c, data) /\ IsStr(data[c])

check_off(error, data, last, t, i_quiet) ==
    IF error = "ERROR_log_read" THEN
        IF last # None /\ t - last < Minutes(WARNING_NOLOG_MINUTES) THEN "off" ELSE "keep"
    ELSE IF HasCfg(ERROR_COLUMNS_MUSTHAVE, error) THEN
        IF In(Cfg(ERROR_COLUMNS_MUSTHAVE, error).column, data) THEN "off" ELSE "keep"
    ELSE IF HasCfg(ERROR_LIMITS_MAX, error) THEN
        LET e_dict == Cfg(ERROR_LIMITS_MAX, error)
            x == data[e_dict.column]
        IN IF Size(data) > 0 /\ In(e_dict.column, data)
           THEN IF IsStr(x) THEN "raise"
                ELSE IF IsNum(x) /\ x.v < e_dict.limits[i_quiet + 1]
                     THEN IF x.v < e_dict.limits[1] THEN "off" ELSE "off_quiet"
                     ELSE "keep"
           ELSE "keep"
    ELSE IF HasCfg(ERROR_LOWERTHAN_VALUES, error) THEN
        LET e_dict == Cfg(ERROR_LOWERTHAN_VALUES, error)
            c == e_dict.column
            x == data[c]
        IN IF In(c, data)
           THEN IF HasColumn(ERROR_LOWERTHAN, c)
                THEN IF IsStr(x) THEN "raise"
                     ELSE IF IsNum(x) /\ x.v > OfColumn(ERROR_LOWERTHAN, c).value
                          THEN "off" ELSE "keep"
                ELSE IF ~(IsNum(x) /\ x.v = e_dict.value) THEN "off" ELSE "keep"
           ELSE "keep"
    ELSE IF error = ERROR_LOWERTHAN_DEFAULT THEN
        IF LowerRaises(data) THEN "raise"
        ELSE IF ~LowerFoundFrom(data) THEN "off" ELSE "keep"
    ELSE IF error = ERROR_UNKNOWN_VALUES THEN
        IF AnyNaN(data) = "raise" THEN "raise"
        ELSE IF AnyNaN(data) = "false" THEN "off" ELSE "keep"
    ELSE "unknown"

\* check_sanity, lines 1459-1513: the rules to clear, in the order of the dict
RECURSIVE errors_off_from(_, _, _, _, _, _)
errors_off_from(E, i, data, last, t, i_quiet) ==
    IF i > Len(E) THEN <<>>
    ELSE LET r == check_off(E[i].error, data, last, t, i_quiet)
             rest == errors_off_from(E, i + 1, data, last, t, i_quiet)
         IN IF r \in {"off", "off_quiet"}
            THEN <<[error |-> E[i].error, only_quiet |-> (r = "off_quiet")]>> \o rest
            ELSE rest

first_loop_raises(E, data, last, t, i_quiet) ==
    \E i \in DOMAIN E : check_off(E[i].error, data, last, t, i_quiet) = "raise"

\* variant: the records of unknown rules stay
remove_unknown_never(E, data, last, t, i_quiet) == E

remove_unknown(E, data, last, t, i_quiet) ==
    SelectSeq(E, LAMBDA x : check_off(x.error, data, last, t, i_quiet) # "unknown")

----------------------------------------------------------------------------
(* check_sanity, lines 1515-1555: new warnings.  The state threaded through *)
(* the statements is [E, exc]: exc is set by the statement that raises and  *)
(* every later statement is then skipped.                                   *)

add_log_read(st, last, t) ==
    IF last = None \/ t - last > Minutes(WARNING_NOLOG_MINUTES)
    THEN [st EXCEPT !.E = error_add(st.E, "ERROR_log_read", ValueTime(last), 0, t)]
    ELSE st

RECURSIVE add_musthave(_, _, _, _)
add_musthave(st, i, data, t) ==
    IF i > Len(ERROR_COLUMNS_MUSTHAVE) THEN st
    ELSE LET e_dict == ERROR_COLUMNS_MUSTHAVE[i]
         IN add_musthave(
                IF ~In(e_dict.column, data)
                THEN [st EXCEPT !.E = error_add(st.E, e_dict.error, ValueEmpty, 0, t)]
                ELSE st,
                i + 1, data, t)

RECURSIVE add_limits_max(_, _, _, _, _)
add_limits_max(st, i, data, t, i_quiet) ==
    IF st.exc \/ i > Len(ERROR_LIMITS_MAX) THEN st
    ELSE LET e_dict == ERROR_LIMITS_MAX[i]
             x == data[e_dict.column]
         IN add_limits_max(
                IF ~In(e_dict.column, data) THEN st
                ELSE IF IsStr(x) THEN [st EXCEPT !.exc = TRUE]
                ELSE IF IsNum(x) /\ x.v > e_dict.limits[i_quiet + 1]
                THEN [st EXCEPT !.E = error_add(st.E, e_dict.error, ValueOf(x),
                                                MinCountOf(e_dict), t)]
                ELSE st,
                i + 1, data, t, i_quiet)

\* the inner loop over ERROR_LOWERTHAN_VALUES for one column with a value <= 0
RECURSIVE add_error_codes(_, _, _, _, _)
add_error_codes(E, j, c, x, t) ==
    IF j > Len(ERROR_LOWERTHAN_VALUES) THEN E
    ELSE LET e_dict == ERROR_LOWERTHAN_VALUES[j]
         IN add_error_codes(
                IF e_dict.column = c /\ e_dict.value = x.v
                THEN error_add(E, e_dict.error, ValueOf(x), 0, t)
                ELSE E,
                j + 1, c, x, t)

\* variant: no value is taken for a sentinel code
found_error_code_never(c, x) == FALSE

found_error_code(c, x) ==
    \E j \in DOMAIN ERROR_LOWERTHAN_VALUES :
        ERROR_LOWERTHAN_VALUES[j].column = c /\ ERROR_LOWERTHAN_VALUES[j].value = x.v

\* st carries negative_error_columns in st.cols
RECURSIVE add_lowerthan(_, _, _, _)
add_lowerthan(st, i, data, t) ==
    IF st.exc \/ i > Len(ERROR_LOWERTHAN) THEN st
    ELSE LET c == ERROR_LOWERTHAN[i].column
             x == data[c]
         IN add_lowerthan(
                IF ~In(c, data) THEN st
                ELSE IF IsStr(x) THEN [st EXCEPT !.exc = TRUE]
                ELSE IF IsNum(x) /\ x.v <= 0
                THEN [st EXCEPT !.E = add_error_codes(st.E, 1, c, x, t),
                                !.cols = IF found_error_code(c, x) THEN @ ELSE Append(@, c)]
                ELSE st,
                i + 1, data, t)

add_lowerthan_default(st, t) ==
    IF st.exc \/ st.cols = <<>> THEN st
    ELSE [st EXCEPT !.E = error_add(st.E, ERROR_LOWERTHAN_DEFAULT, ValueColumns(st.cols), 0, t)]

NaNColumns(data) == SelectSeq(Columns, LAMBDA c : In(c, data) /\ IsNaN(data[c]))

add_unknown_values(st, data, t) ==
    IF st.exc THEN st
    ELSE IF AnyNaN(data) = "raise" THEN [st EXCEPT !.exc = TRUE]
    ELSE IF AnyNaN(data) = "true"
    THEN IF \E c \in ColumnSet : In(c, data) /\ IsStr(data[c])
         THEN [st EXCEPT !.exc = TRUE]
         ELSE [st EXCEPT !.E = error_add(st.E, ERROR_UNKNOWN_VALUES,
                                         ValueColumns(NaNColumns(data)), 0, t)]
    ELSE st

new_warnings(E, data, last, t, i_quiet) ==
    LET s0 == [E |-> E, exc |-> FALSE, cols |-> <<>>]
        s1 == add_log_read(s0, last, t)
        s2 == add_musthave(s1, 1, data, t)
    IN IF Size(data) > 0
       THEN add_unknown_values(
                add_lowerthan_default(
                    add_lowerthan(add_limits_max(s2, 1, data, t, i_quiet), 1, data, t), t),
                data, t)
       ELSE s2

----------------------------------------------------------------------------
(* Delivery.  The state threaded through the statements is                  *)
(* [E, LOG, out, exc, n, errors_sent]: out are the messages delivered, n    *)
(* counts the deliveries attempted, exc is set when the transport raises    *)
(* (the attempt number failAt raises; failAt = 0: none does).               *)

Msg(kind, user, error, quiet) ==
    [kind |-> kind, user |-> user, error |-> error, quiet |-> quiet]

\* bot.send_chat_action + bot.send_message of one message
send_message(st, m, failAt) ==
    IF st.n + 1 = failAt
    THEN [st EXCEPT !.n = @ + 1, !.exc = TRUE]
    ELSE [st EXCEPT !.n = @ + 1, !.out = Append(@, m)]

\* status_sensors(None, context, chat_id=user, add_to_last=False): the decorator's
\* chat action, replace_lowerthan(self.LOG_data), then the message
status_sensors(st, user, failAt) ==
    IF st.n + 1 = failAt
    THEN [st EXCEPT !.n = @ + 1, !.exc = TRUE]
    ELSE send_message([st EXCEPT !.n = @ + 1, !.LOG = replace_lowerthan(@)],
                      Msg("status", user, "", FALSE), failAt)

\* variant: the de-warning goes to every user
RECURSIVE status_error_off_users_all(_, _, _, _, _)
status_error_off_users_all(st, error, only_quiet, i, failAt) ==
    IF st.exc \/ i > Len(LIST_OF_USERS) THEN st
    ELSE status_error_off_users_all(
             send_message(st, Msg("dewarning", LIST_OF_USERS[i], error, only_quiet), failAt),
             error, only_quiet, i + 1, failAt)

RECURSIVE status_error_off_users(_, _, _, _, _)
status_error_off_users(st, error, only_quiet, i, failAt) ==
    IF st.exc \/ i > Len(LIST_OF_USERS) THEN st
    ELSE LET chat_id == LIST_OF_USERS[i]
         IN status_error_off_users(
                IF Recs(st.E, error)[chat_id].timesSent > 0
                THEN send_message(st, Msg("dewarning", chat_id, error, only_quiet), failAt)
                ELSE st,
                error, only_quiet, i + 1, failAt)

RECURSIVE status_error_off(_, _, _, _)
status_error_off(st, errors_off, j, failAt) ==
    IF st.exc \/ j > Len(errors_off) THEN st
    ELSE LET s1 == status_error_off_users(st, errors_off[j].error,
                                          errors_off[j].only_quiet, 1, failAt)
         IN IF s1.exc THEN s1
            ELSE status_error_off(
                     [s1 EXCEPT !.E = error_remove(@, errors_off[j].error)],
                     errors_off, j + 1, failAt)

\* variant: a delivered warning does not postpone the next one
warned_at_once(E, k, chat_id, t) ==
    [E EXCEPT ![k].recs[chat_id].sendNext = t,
              ![k].recs[chat_id].timesSent = @ + 1]

\* the entry of (rule k of the dict, user) after a delivered warning
warned(E, k, chat_id, t) ==
    [E EXCEPT ![k].recs[chat_id].sendNext = t + Minutes(WARNING_SEND_EVERY_MINUTES),
              ![k].recs[chat_id].timesSent = @ + 1]

\* status_error, lines 1003-1032: the loop over the rules for one user
RECURSIVE status_error_errors(_, _, _, _, _)
status_error_errors(st, chat_id, k, t, failAt) ==
    IF st.exc \/ k > Len(st.E) THEN st
    ELSE LET rec == st.E[k].recs[chat_id]
         IN status_error_errors(
                IF t <= rec.sendNext THEN st
                ELSE LET s1 == send_message(st, Msg("warning", chat_id, st.E[k].error, FALSE),
                                            failAt)
                     IN IF s1.exc THEN s1
                        ELSE [s1 EXCEPT !.E = warned(@, k, chat_id, t),
                                        !.errors_sent = TRUE],
                chat_id, k + 1, t, failAt)

\* variant: every user gets the status snapshot
RECURSIVE status_error_snapshot_all(_, _, _, _)
status_error_snapshot_all(st, i, t, failAt) ==
    IF st.exc \/ i > Len(LIST_OF_USERS) THEN st
    ELSE LET chat_id == LIST_OF_USERS[i]
             s1 == status_error_errors([st EXCEPT !.errors_sent = FALSE], chat_id, 1, t, failAt)
             s2 == IF ~s1.exc THEN status_sensors(s1, chat_id, failAt) ELSE s1
         IN status_error_snapshot_all(s2, i + 1, t, failAt)

\* status_error(send_all=False), lines 996-1034: the loop over the users
RECURSIVE status_error(_, _, _, _)
status_error(st, i, t, failAt) ==
    IF st.exc \/ i > Len(LIST_OF_USERS) THEN st
    ELSE LET chat_id == LIST_OF_USERS[i]
             s1 == status_error_errors([st EXCEPT !.errors_sent = FALSE], chat_id, 1, t, failAt)
             s2 == IF ~s1.exc /\ s1.errors_sent THEN status_sensors(s1, chat_id, failAt) ELSE s1
         IN status_error(s2, i + 1, t, failAt)

\* check_sanity, called at time t; status_error reads the clock at time t1
check_sanity(E, data, last, t, t1, failAt) ==
    LET i_quiet == IF quiet_hours(t) THEN 1 ELSE 0
        errors_off == errors_off_from(E, 1, data, last, t, i_quiet)
        added == new_warnings(remove_unknown(E, data, last, t, i_quiet), data, last, t, i_quiet)
        st0 == [E |-> E, LOG |-> data, out |-> <<>>, exc |-> FALSE, n |-> 0,
                errors_sent |-> FALSE]
    IN IF first_loop_raises(E, data, last, t, i_quiet) THEN [st0 EXCEPT !.exc = TRUE]
       ELSE IF added.exc THEN [st0 EXCEPT !.E = added.E, !.exc = TRUE]
       ELSE status_error(status_error_off([st0 EXCEPT !.E = added.E], errors_off, 1, failAt),
                         1, t1, failAt)

----------------------------------------------------------------------------
(* Text.  A str is a sequence of characters (strings of length 1); the      *)
(* operators below are the str methods and the conversions the handlers of  *)
(* the chat commands use, over lower-case letters, "T", digits, and the     *)
(* characters " ", "<", ">", "+", "-", ".", ",", "!".                        *)

Digits == <<"0", "1", "2", "3", "4", "5", "6", "7", "8", "9">>
DigitSet == {Digits[i] : i \in DOMAIN Digits}
DigitValue(c) == (CHOOSE i \in DOMAIN Digits : Digits[i] = c) - 1
Letters == {"a", "b", "c", "d", "e", "f", "g", "h", "i", "j", "k", "l", "m", "n", "o", "p", "q", "r", "s", "t", "u", "v", "w", "x", "y", "z"}
Whitespace == {" "}

\* str.lower()
lower(s) == [i \in DOMAIN s |-> IF s[i] = "T" THEN "t" ELSE s[i]]

\* ' '.join(args)
RECURSIVE join(_)
join(args) ==
    IF args = <<>> THEN <<>>
    ELSE IF Len(args) = 1 THEN args[1]
    ELSE args[1] \o <<" ">> \o join(Tail(args))

\* str.split(): the maximal runs of characters that are not whitespace
RECURSIVE split_from(_, _)
split_from(s, word) ==
    IF s = <<>> THEN (IF word = <<>> THEN <<>> ELSE <<word>>)
    ELSE IF Head(s) \in Whitespace
         THEN (IF word = <<>> THEN <<>> ELSE <<word>>) \o split_from(Tail(s), <<>>)
         ELSE split_from(Tail(s), Append(word, Head(s)))
split(s) == split_from(s, <<>>)

\* str.replace(old, new), from left to right, without overlap (old is not empty)
IsPrefix(old, s) == Len(old) <= Len(s) /\ SubSeq(s, 1, Len(old)) = old
RECURSIVE replace(_, _, _)
replace(s, old, new) ==
    IF s = <<>> THEN <<>>
    ELSE IF IsPrefix(old, s)
         THEN new \o replace(SubSeq(s, Len(old) + 1, Len(s)), old, new)
         ELSE <<Head(s)>> \o replace(Tail(s), old, new)

\* re.sub(r'[^\w\s<>+-.,]', '', s): the class keeps word characters, whitespace,
\* "<", ">" and the range "+" to "." ("+", ",", "-", ".")
re_sub_special(s) ==
    SelectSeq(s, LAMBDA c :
        c \in Letters \cup {"T"} \cup DigitSet \cup Whitespace \cup {"<", ">", "+", ",", "-", "."})

\* the value of a run of digits, and 10 ** n
RECURSIVE digits_value(_)
digits_value(s) ==
    IF s = <<>> THEN 0 ELSE 10 * digits_value(SubSeq(s, 1, Len(s) - 1)) + DigitValue(s[Len(s)])
RECURSIVE Pow10(_)
Pow10(n) == IF n = 0 THEN 1 ELSE 10 * Pow10(n - 1)

AllDigits(s) == \A i \in DOMAIN s : s[i] \in DigitSet
Unsigned(s) == IF s # <<>> /\ Head(s) \in {"+", "-"} THEN Tail(s) ELSE s
SignOf(s) == IF s # <<>> /\ Head(s) = "-" THEN -1 ELSE 1

\* int(s): [ok, v]; ok = FALSE is ValueError
int(s) ==
    LET d == Unsigned(s)
    IN IF d # <<>> /\ AllDigits(d) THEN [ok |-> TRUE, v |-> SignOf(s) * digits_value(d)]
       ELSE [ok |-> FALSE, v |-> 0]

\* float(s): [ok, special, m, k]; ok = FALSE is ValueError, special is "nan" or
\* "inf" (the sign in m) or "", and the value is m * 10 ** k otherwise.
\* [sign] (digits [. [digits]] | . digits) [e [sign] digits]
Before(s, c) ==
    IF \E i \in DOMAIN s : s[i] = c
    THEN SubSeq(s, 1, (CHOOSE i \in DOMAIN s : s[i] = c /\ \A j \in 1..(i - 1) : s[j] # c) - 1)
    ELSE s
After(s, c) ==
    IF \E i \in DOMAIN s : s[i] = c
    THEN SubSeq(s, (CHOOSE i \in DOMAIN s : s[i] = c /\ \A j \in 1..(i - 1) : s[j] # c) + 1, Len(s))
    ELSE <<>>
Contains(s, c) == \E i \in DOMAIN s : s[i] = c

float(s) ==
    LET u == Unsigned(s)
        mant == Before(u, "e")
        expo == After(u, "e")
        whole == Before(mant, ".")
        frac == After(mant, ".")
        mant_ok == /\ AllDigits(whole) /\ AllDigits(frac)
                   /\ whole # <<>> \/ frac # <<>>
        expo_ok == IF Contains(u, "e") THEN int(expo).ok ELSE expo = <<>>
    IN IF u \in {<<"n", "a", "n">>}
       THEN [ok |-> TRUE, special |-> "nan", m |-> 0, k |-> 0]
       ELSE IF u \in {<<"i", "n", "f">>, <<"i", "n", "f", "i", "n", "i", "t", "y">>}
       THEN [ok |-> TRUE, special |-> "inf", m |-> SignOf(s), k |-> 0]
       ELSE IF mant_ok /\ expo_ok
       THEN [ok |-> TRUE, special |-> "",
             m |-> SignOf(s) * digits_value(whole \o frac),
             k |-> (IF Contains(u, "e") THEN int(expo).v ELSE 0) - Len(frac)]
       ELSE [ok |-> FALSE, special |-> "", m |-> 0, k |-> 0]

----------------------------------------------------------------------------
(* User notification rules: USER_config[user]['notifications'] is a list of *)
(* dicts {'column', 'comparison', 'limit'} with, once it was set, 'active'  *)
(* ("unset": the dict has no key 'active').  has is FALSE while the user's  *)
(* config has no key 'notifications'.                                       *)

COLUMNS_LABELS ==
    << [column |-> PAFM, labels |-> <<<<"p", "a", "f", "m">>, <<"a", "f", "m", "p", "r", "e", "s", "s", "u", "r", "e">>, <<"a", "f", "m", "p">>, <<"p", "r", "e", "s", "s", "u", "r", "e", "a", "f", "m">>>>],
       [column |-> TAFM, labels |-> <<<<"t", "a", "f", "m">>, <<"a", "f", "m">>, <<"t", "e", "m", "p">>, <<"t">>, <<"a", "f", "m", "t", "e", "m", "p", "e", "r", "a", "t", "u", "r", "e">>, <<"a", "f", "m", "t">>, <<"t", "e", "m", "p", "e", "r", "a", "t", "u", "r", "e", "a", "f", "m">>, <<"a", "f", "m", "t", "e", "m", "p">>, <<"t", "e", "m", "p", "a", "f", "m">>>>] >>

Notification(column, comparison, limit, active) ==
    [column |-> column, comparison |-> comparison, limit |-> limit, active |-> active]

NoNotifications == [has |-> FALSE, notifications |-> <<>>, last_commands |-> <<>>]
Notifications(ns) == [has |-> TRUE, notifications |-> ns, last_commands |-> <<>>]

\* get_column_name(query): [ok, column]; ok = FALSE is the default, False
get_column_name(query) ==
    LET hit(i) == \E j \in DOMAIN COLUMNS_LABELS[i].labels :
                      lower(COLUMNS_LABELS[i].labels[j]) = lower(query)
    IN IF \E i \in DOMAIN COLUMNS_LABELS : hit(i)
       THEN [ok |-> TRUE,
             column |-> COLUMNS_LABELS[CHOOSE i \in DOMAIN COLUMNS_LABELS :
                            hit(i) /\ \A k \in 1..(i - 1) : ~hit(k)].column]
       ELSE [ok |-> FALSE, column |-> ""]

\* the number of a reading in the unit of its column, as m * 10 ** k
Real(c, v) == IF c = PAFM /\ v > 0 THEN [m |-> v, k |-> -10] ELSE [m |-> v, k |-> 0]

\* variant: a value equal to the limit exceeds it
reaches(sign, x, limit) ==
    LET k == IF x.k < limit.k THEN x.k ELSE limit.k
    IN IF limit.special = "nan" THEN FALSE
       ELSE IF limit.special = "inf" THEN sign * limit.m < 0
       ELSE sign * x.m * Pow10(x.k - k) >= sign * limit.m * Pow10(limit.k - k)

\* sign * x > sign * limit, for a number x = m * 10 ** k and a float limit
exceeds(sign, x, limit) ==
    LET k == IF x.k < limit.k THEN x.k ELSE limit.k
    IN IF limit.special = "nan" THEN FALSE
       ELSE IF limit.special = "inf" THEN sign * limit.m < 0
       ELSE sign * x.m * Pow10(x.k - k) > sign * limit.m * Pow10(limit.k - k)

\* self.LOG_labels_nice[notification['column']] in notification_to_string: the
\* labels are those of the columns of the line read last
notification_to_string_raises(n, data) == ~In(n.column, data)

\* notification_list(user) raises KeyError
notification_list_raises(U, user, data) ==
    /\ U[user].has
    /\ \E i \in DOMAIN U[user].notifications :
          notification_to_string_raises(U[user].notifications[i], data)

\* check_user_notifications, lines 1573-1582: the loop over the rules of one
\* user; st is [U, save, out, exc, n, n_inactivate]
RECURSIVE check_user_notifications_rules(_, _, _, _, _)
check_user_notifications_rules(st, user, i, data, failAt) ==
    IF st.exc \/ i > Len(st.U[user].notifications) THEN st
    ELSE LET n == st.U[user].notifications[i]
             x == data[n.column]
         IN check_user_notifications_rules(
                IF n.active = "false" THEN st
                ELSE IF In(n.column, data) /\ IsNum(x)
                        /\ exceeds(n.comparison, Real(n.column, x.v), n.limit)
                THEN LET s1 == send_message(st, [kind |-> "notification", user |-> user,
                                                 error |-> "", quiet |-> FALSE,
                                                 rule |-> i, notification |-> n], failAt)
                     IN IF s1.exc THEN s1
                        ELSE [s1 EXCEPT !.n_inactivate = Append(@, i)]
                ELSE st,
                user, i + 1, data, failAt)

\* variant: the rules that fired stay as they are
inactivated_never(U, user, n_inactivate) == U

\* lines 1583-1587: the rules that fired are set inactive
inactivated(U, user, n_inactivate) ==
    [U EXCEPT ![user].notifications =
        [i \in DOMAIN @ |->
            IF \E m \in DOMAIN n_inactivate : n_inactivate[m] = i
            THEN [@[i] EXCEPT !.active = "false"]
            ELSE @[i]]]

RECURSIVE check_user_notifications_users(_, _, _, _)
check_user_notifications_users(st, i, data, failAt) ==
    IF st.exc \/ i > Len(LIST_OF_USERS) THEN st
    ELSE LET user == LIST_OF_USERS[i]
             s1 == check_user_notifications_rules([st EXCEPT !.n_inactivate = <<>>],
                                                  user, 1, data, failAt)
         IN check_user_notifications_users(
                IF ~st.U[user].has \/ s1.exc THEN (IF st.U[user].has THEN s1 ELSE st)
                ELSE [s1 EXCEPT !.U = inactivated(@, user, s1.n_inactivate),
                                !.save = @ \/ s1.n_inactivate # <<>>],
                i + 1, data, failAt)

\* check_user_notifications, after a check_sanity that made n deliveries
check_user_notifications(U, save, data, out, n, failAt) ==
    LET st == [U |-> U, save |-> save, out |-> out, exc |-> FALSE, n |-> n,
               n_inactivate |-> <<>>]
    IN IF ~(Size(data) > 0) THEN st
       ELSE check_user_notifications_users(st, 1, data, failAt)

----------------------------------------------------------------------------
(* user_notifications_manage and notification_change.  args is a list of    *)
(* str; the replies are messages of kind "reply" whose field error names    *)
(* the text that is sent.                                                   *)

KEYWORDS_LIST == {<<"l", "i", "s", "t">>, <<"l">>}
KEYWORDS_DEACT == {<<"d", "e", "a", "c", "t">>, <<"d", "e", "a">>, <<"i", "n", "a", "c", "t">>, <<"i", "n", "a", "c", "t", "i", "v", "a", "t", "e">>, <<"d", "e", "a", "c", "t", "i", "v", "a", "t", "e">>}
KEYWORDS_ACT == {<<"a", "c", "t">>, <<"a">>, <<"a", "c", "t", "i", "v", "a", "t", "e">>}
KEYWORDS_DEL == {<<"d", "e", "l">>, <<"d", "e", "l", "e", "t", "e">>, <<"r", "e", "m", "o", "v", "e">>}
KEYWORDS_ADD == {<<"a", "d", "d">>}
KEYWORD_ALL == <<"a", "l", "l">>
COMPARATORS_GREATER == {<<">">>, <<"g">>, <<"g", "t">>, <<"g", "r">>}
COMPARATORS_LESS == {<<"<">>, <<"s">>, <<"l", "t">>, <<"l">>, <<"k">>, <<"k", "l">>}

Reply(user, text, num) ==
    [kind |-> "reply", user |-> user, error |-> text, quiet |-> FALSE, num |-> num]

\* the ints of args up to the first that int() rejects, each minus 1
RECURSIVE is_tochange_from(_)
is_tochange_from(args) ==
    IF args = <<>> \/ ~int(Head(args)).ok THEN <<>>
    ELSE <<int(Head(args)).v - 1>> \o is_tochange_from(Tail(args))

\* reversed(sorted(is_tochange))
RECURSIVE reversed_sorted(_)
reversed_sorted(is) ==
    IF is = <<>> THEN <<>>
    ELSE LET m == CHOOSE k \in DOMAIN is : \A j \in DOMAIN is : is[j] <= is[k]
         IN <<is[m]>> \o reversed_sorted(SubSeq(is, 1, m - 1) \o SubSeq(is, m + 1, Len(is)))

\* the list after the action on position i (0-based)
changed(ns, i, action) ==
    IF action = "act" THEN [ns EXCEPT ![i + 1].active = "true"]
    ELSE IF action = "deact" THEN [ns EXCEPT ![i + 1].active = "false"]
    ELSE SubSeq(ns, 1, i) \o SubSeq(ns, i + 2, Len(ns))

\* variant: the positions are taken from the lowest to the highest
RECURSIVE notification_change_ascending(_, _, _, _)
notification_change_ascending(st, user, is, action) ==
    IF st.exc \/ is = <<>> THEN st
    ELSE LET i == is[Len(is)]
             rest == SubSeq(is, 1, Len(is) - 1)
         IN notification_change_ascending(
                IF i >= 0
                THEN IF ~st.U[user].has THEN [st EXCEPT !.exc = TRUE]
                     ELSE IF i < Len(st.U[user].notifications)
                     THEN [st EXCEPT !.U[user].notifications = changed(@, i, action),
                                     !.num_changed = @ + 1]
                     ELSE st
                ELSE st,
                user, rest, action)

\* notification_change, lines 630-640: the loop; st is [U, num_changed, exc]
\* (exc: KeyError, the user's config has no 'notifications')
RECURSIVE notification_change_loop(_, _, _, _)
notification_change_loop(st, user, is, action) ==
    IF st.exc \/ is = <<>> THEN st
    ELSE LET i == Head(is)
         IN notification_change_loop(
                IF i >= 0
                THEN IF ~st.U[user].has THEN [st EXCEPT !.exc = TRUE]
                     ELSE IF i < Len(st.U[user].notifications)
                     THEN [st EXCEPT !.U[user].notifications = changed(@, i, action),
                                     !.num_changed = @ + 1]
                     ELSE st
                ELSE st,
                user, Tail(is), action)

notification_change(U, user, args, action) ==
    LET st == [U |-> U, num_changed |-> 0, exc |-> FALSE]
    IN IF args[1] = KEYWORD_ALL
       THEN IF ~U[user].has THEN [st EXCEPT !.exc = TRUE]
            ELSE notification_change_loop(st, user,
                     reversed_sorted([i \in 1..Len(U[user].notifications) |-> i - 1]), action)
       ELSE notification_change_loop(st, user, reversed_sorted(is_tochange_from(args)), action)

\* the action of the keyword args[0], "" if it is none
action_key(keyword) ==
    IF keyword \in KEYWORDS_DEACT THEN "deact"
    ELSE IF keyword \in KEYWORDS_ACT THEN "act"
    ELSE IF keyword \in KEYWORDS_DEL THEN "del"
    ELSE ""

\* lines 706-709: the items of the query
query_items(args) ==
    split(replace(replace(replace(re_sub_special(join(args)),
                                  <<">">>, <<" ", ">", " ">>),
                          <<"<">>, <<" ", "<", " ">>),
                  <<",">>, <<".">>))

comparison_of(item) ==
    IF item \in COMPARATORS_GREATER THEN 1
    ELSE IF item \in COMPARATORS_LESS THEN -1
    ELSE 0

limit_of(item) == float(replace(replace(lower(item), <<"k">>, <<>>), <<"m", "b", "a", "r">>, <<>>))

\* variant: the rule is appended before its limit is looked at
notification_added_early(U, save, data, chat_id, args) ==
    LET items == query_items(args)
        column == get_column_name(items[1])
        comparison == comparison_of(items[2])
        limit == limit_of(items[3])
        n == Notification(column.column, comparison, limit, "unset")
        U1 == [U EXCEPT ![chat_id] = Notifications(Append(U[chat_id].notifications, n))]
        st == [U |-> U, save |-> save, out |-> <<>>, exc |-> FALSE]
    IN IF Len(items) # 3 THEN [st EXCEPT !.out = <<Reply(chat_id, "three_elements", 0)>>]
       ELSE IF ~column.ok THEN [st EXCEPT !.out = <<Reply(chat_id, "first_element", 0)>>]
       ELSE IF comparison = 0 THEN [st EXCEPT !.out = <<Reply(chat_id, "second_element", 0)>>]
       ELSE IF ~limit.ok
       THEN [st EXCEPT !.U = U1, !.out = <<Reply(chat_id, "third_element", 0)>>]
       ELSE IF notification_to_string_raises(n, data) THEN [st EXCEPT !.U = U1, !.exc = TRUE]
       ELSE IF notification_list_raises(U1, chat_id, data)
       THEN [st EXCEPT !.U = U1, !.save = TRUE, !.exc = TRUE]
       ELSE [st EXCEPT !.U = U1, !.save = TRUE, !.out = <<Reply(chat_id, "set_up", 0)>>]

\* lines 703-759: a rule is added; the result is [U, save, out, exc]
notification_added(U, save, data, chat_id, args) ==
    LET items == query_items(args)
        column == get_column_name(items[1])
        comparison == comparison_of(items[2])
        limit == limit_of(items[3])
        n == Notification(column.column, comparison, limit, "unset")
        U1 == [U EXCEPT ![chat_id] = Notifications(Append(U[chat_id].notifications, n))]
        st == [U |-> U, save |-> save, out |-> <<>>, exc |-> FALSE]
    IN IF Len(items) # 3 THEN [st EXCEPT !.out = <<Reply(chat_id, "three_elements", 0)>>]
       ELSE IF ~column.ok THEN [st EXCEPT !.out = <<Reply(chat_id, "first_element", 0)>>]
       ELSE IF comparison = 0 THEN [st EXCEPT !.out = <<Reply(chat_id, "second_element", 0)>>]
       ELSE IF ~limit.ok THEN [st EXCEPT !.out = <<Reply(chat_id, "third_element", 0)>>]
       ELSE IF notification_to_string_raises(n, data) THEN [st EXCEPT !.U = U1, !.exc = TRUE]
       ELSE IF notification_list_raises(U1, chat_id, data)
       THEN [st EXCEPT !.U = U1, !.save = TRUE, !.exc = TRUE]
       ELSE [st EXCEPT !.U = U1, !.save = TRUE, !.out = <<Reply(chat_id, "set_up", 0)>>]

\* user_notifications_manage(args) by chat_id: [U, save, out, exc, num_changed]
\* (num_changed: what notification_change returned, 0 if it was not called)
notifications_managed(U, save, data, chat_id, args) ==
    LET st == [U |-> U, save |-> save, out |-> <<>>, exc |-> FALSE, num_changed |-> 0]
        listed(s1, text, num) ==
            IF notification_list_raises(s1.U, chat_id, data) THEN [s1 EXCEPT !.exc = TRUE]
            ELSE [s1 EXCEPT !.out = <<Reply(chat_id, text, num)>>]
        added == notification_added(U, save, data, chat_id,
                                    IF args[1] \in KEYWORDS_ADD THEN Tail(args) ELSE args)
    IN IF args = <<>> THEN listed(st, "usage", 0)
       ELSE IF args[1] \in KEYWORDS_LIST THEN listed(st, "list", 0)
       ELSE IF action_key(args[1]) # ""
       THEN IF Len(args) <= 1 THEN [st EXCEPT !.out = <<Reply(chat_id, "which", 0)>>]
            ELSE LET r == notification_change(U, chat_id, Tail(args), action_key(args[1]))
                 IN IF r.exc THEN [st EXCEPT !.U = r.U, !.exc = TRUE]
                    ELSE listed([st EXCEPT !.U = r.U, !.save = save \/ r.num_changed > 0,
                                           !.num_changed = r.num_changed],
                                "changed", r.num_changed)
       ELSE [st EXCEPT !.U = added.U, !.save = added.save, !.out = added.out,
                       !.exc = added.exc]

----------------------------------------------------------------------------
(* State machine *)

\* __init__: config_load, if there is a config file, and the defaults of the
\* users (no key 'notifications'); rules is the set of the USER_config in the file
NoRules == [u \in Users |-> NoNotifications]
NoFile == [exists |-> FALSE, ERRORS_checks |-> <<>>, USER_config |-> NoRules]

\* no poll cycle is inside check_user_notifications
NoPending == [cycle |-> FALSE]

\* files is the set of the config files the bot may find: config_load sets
\* ERRORS_checks and USER_config to what the file holds
InitLoad(starts, min_counts, files) ==
    /\ now \in starts
    /\ timer = now
    /\ LOG_file = [ok |-> FALSE, ts |-> None, data |-> EmptyData]
    /\ LOG_last_checked = None
    /\ LOG_data = EmptyData
    /\ CONFIG_file \in files
    /\ ERRORS_checks = CONFIG_file.ERRORS_checks
    /\ USER_config = CONFIG_file.USER_config
    /\ save_config = FALSE
    /\ cfg_min_count \in min_counts
    /\ cycles = 0
    /\ commands = 0
    /\ pending = NoPending
    /\ hist = <<>>

InitWith(starts, min_counts, rules) ==
    InitLoad(starts, min_counts,
             {IF U = NoRules THEN NoFile
              ELSE [exists |-> TRUE, ERRORS_checks |-> <<>>, USER_config |-> U] : U \in rules})

\* self.ERRORS_checks != error_checks_old: dicts are equal whatever the order
differs(E, error_checks_old) ==
    {E[i] : i \in DOMAIN E} # {error_checks_old[i] : i \in DOMAIN error_checks_old}

\* variant: the timer of the next cycle is started by the last statement of
\* read_log, which an exception skips
timer_started_last(t, raised) ==
    IF raised THEN None ELSE t + READ_LOG_EVERY_SECONDS

\* read_log, line 1372: threading.Timer(cfg.READ_LOG_EVERY_SECONDS, self.read_log)
\* is started by the first statement of the cycle that began at t
timer_started(t, raised) == t + READ_LOG_EVERY_SECONDS

\* check_sanity, lines 1561-1563, with the ERRORS_checks E that the delivery pass
\* left: "none" (nothing to save), "saved", or "raise" (config_save cannot write
\* the file: save_raises)
config_saved(save, E, error_checks_old, save_raises) ==
    IF ~(save \/ differs(E, error_checks_old)) THEN "none"
    ELSE IF save_raises THEN "raise" ELSE "saved"

\* read_log: one poll cycle, run by the timer.  It starts delay seconds after its
\* timer is due and sets the timer of the next cycle first; file is the log file
\* as the cycle finds it.  check_sanity reads the clock at t, status_error after
\* it, at t1; its last statement saves the config; check_user_notifications
\* follows, unless check_sanity raised.  (check_measure_requests and
\* check_logging_file touch none of the variables.)
read_log_run(delay, file, failAt, save_raises) ==
    /\ cycles < MaxCycles
    /\ timer # None
    /\ LET t == timer + delay
           t1 == t + 1
           data == IF file.ok THEN file.data ELSE LOG_data
           last == IF file.ok THEN file.ts ELSE LOG_last_checked
           i_quiet == IF quiet_hours(t) THEN 1 ELSE 0
       IN \E r \in {check_sanity(ERRORS_checks, data, last, t, t1, failAt)} :
          \E saved \in {IF r.exc THEN "none"
                        ELSE config_saved(save_config, r.E, ERRORS_checks, save_raises)} :
          \E ev \in {IF r.exc \/ saved = "raise"
                     THEN [U |-> USER_config, save |-> save_config, out |-> r.out,
                           exc |-> TRUE, n |-> r.n, n_inactivate |-> <<>>]
                     ELSE check_user_notifications(USER_config, save_config, r.LOG, r.out,
                                                   r.n, failAt)} :
             /\ cycles' = cycles + 1
             /\ now' = t1
             /\ timer' = timer_started(t, ev.exc)
             /\ LOG_file' = file
             /\ LOG_last_checked' = last
             /\ LOG_data' = r.LOG
             /\ ERRORS_checks' = r.E
             /\ USER_config' = ev.U
             /\ save_config' = ev.save
             /\ CONFIG_file' = IF saved = "saved"
                               THEN [exists |-> TRUE, ERRORS_checks |-> r.E,
                                     USER_config |-> USER_config]
                               ELSE CONFIG_file
             /\ hist' = Append(hist, [kind |-> "cycle", user |-> "", t |-> t, t1 |-> t1,
                                      i_quiet |-> i_quiet, raised |-> ev.exc, data |-> data,
                                      last |-> last, out |-> ev.out, E0 |-> ERRORS_checks,
                                      E |-> r.E, args |-> <<>>,
                                      sanity_raised |-> (r.exc \/ saved = "raise"),
                                      save_raised |-> (saved = "raise"),
                                      data1 |-> r.LOG,
                                      saved |-> (saved = "saved"),
                                      U0 |-> USER_config, U |-> ev.U,
                                      save0 |-> save_config, save |-> ev.save])
             /\ UNCHANGED <<cfg_min_count, commands, pending>>

\* a poll cycle that starts when no other poll cycle is running
read_log(delay, file, failAt, save_raises) ==
    pending = NoPending /\ read_log_run(delay, file, failAt, save_raises)

\* the logger appended a line, which the cycle reads
PollNewLine(delays, readings, fails) ==
    \E delay \in delays, reading \in readings, failAt \in fails :
        read_log(delay, [ok |-> TRUE, ts |-> timer + delay, data |-> reading], failAt, FALSE)

\* the log file is as it was
PollSameFile(delays, fails) ==
    \E delay \in delays, failAt \in fails :
        read_log(delay, LOG_file, failAt, FALSE)

\* the log file cannot be read, or holds no line
PollNoFile(delays, fails) ==
    \E delay \in delays, failAt \in fails :
        read_log(delay, [ok |-> FALSE, ts |-> None, data |-> EmptyData], failAt, FALSE)

\* the logger appended a line and the config file may be unwritable
PollSave(delays, readings, saves) ==
    \E delay \in delays, reading \in readings, save_raises \in saves :
        read_log(delay, [ok |-> TRUE, ts |-> timer + delay, data |-> reading], 0, save_raises)

\* read_log runs in the thread of its threading.Timer (line 1372), the chat
\* command handlers in the thread of the dispatcher (start_polling, line 1666),
\* and no lock is taken anywhere: a handler can run while the poll cycle waits
\* in a call of the transport.  read_log_begin is the cycle up to the end of the
\* loop over the rules of the first user of cfg.LIST_OF_USERS (lines 1573-1582),
\* where the notifications that fired have been sent; read_log_end is the rest
\* of the cycle, from line 1583.
read_log_begin(delay, file) ==
    /\ cycles < MaxCycles
    /\ timer # None
    /\ pending = NoPending
    /\ LET t == timer + delay
           t1 == t + 1
           data == IF file.ok THEN file.data ELSE LOG_data
           last == IF file.ok THEN file.ts ELSE LOG_last_checked
           user == LIST_OF_USERS[1]
       IN \E r \in {check_sanity(ERRORS_checks, data, last, t, t1, 0)} :
          \E saved \in {IF r.exc THEN "none"
                        ELSE config_saved(save_config, r.E, ERRORS_checks, FALSE)} :
             /\ ~r.exc
             /\ Size(r.LOG) > 0
             /\ USER_config[user].has
             /\ \E s1 \in {check_user_notifications_rules(
                                [U |-> USER_config, save |-> save_config, out |-> r.out,
                                 exc |-> FALSE, n |-> r.n, n_inactivate |-> <<>>],
                                user, 1, r.LOG, 0)} :
                   pending' = [cycle |-> TRUE, at |-> "check_user_notifications",
                               t |-> t, t1 |-> t1, data |-> data,
                               last |-> last, E0 |-> ERRORS_checks,
                               saved |-> (saved = "saved"), U0 |-> USER_config,
                               save0 |-> save_config, out |-> s1.out, n |-> s1.n,
                               n_inactivate |-> s1.n_inactivate, len |-> Len(hist)]
             /\ cycles' = cycles + 1
             /\ now' = t1
             /\ timer' = timer_started(t, FALSE)
             /\ LOG_file' = file
             /\ LOG_last_checked' = last
             /\ LOG_data' = r.LOG
             /\ ERRORS_checks' = r.E
             /\ CONFIG_file' = IF saved = "saved"
                               THEN [exists |-> TRUE, ERRORS_checks |-> r.E,
                                     USER_config |-> USER_config]
                               ELSE CONFIG_file
             /\ UNCHANGED <<USER_config, save_config, cfg_min_count, commands, hist>>

\* lines 1583-1587 for the first user, on USER_config as it is now (an index of
\* n_inactivate that is no longer in the list raises IndexError, after the
\* assignments before it), then the other users
read_log_end ==
    /\ pending # NoPending
    /\ pending.at = "check_user_notifications"
    /\ LET user == LIST_OF_USERS[1]
           n_inactivate == pending.n_inactivate
           raised == \E m \in DOMAIN n_inactivate :
                         n_inactivate[m] > Len(USER_config[user].notifications)
           U1 == inactivated(USER_config, user, n_inactivate)
       IN \E ev \in {IF raised
                     THEN [U |-> U1, save |-> save_config, out |-> pending.out,
                           exc |-> TRUE, n |-> pending.n, n_inactivate |-> n_inactivate]
                     ELSE check_user_notifications_users(
                              [U |-> U1, save |-> save_config \/ n_inactivate # <<>>,
                               out |-> pending.out, exc |-> FALSE, n |-> pending.n,
                               n_inactivate |-> n_inactivate],
                              2, LOG_data, 0)} :
             /\ USER_config' = ev.U
             /\ save_config' = ev.save
             /\ hist' = Append(hist, [kind |-> "cycle", user |-> "", t |-> pending.t,
                                      t1 |-> pending.t1,
                                      i_quiet |-> IF quiet_hours(pending.t) THEN 1 ELSE 0,
                                      raised |-> ev.exc, data |-> pending.data,
                                      last |-> pending.last, out |-> ev.out,
                                      E0 |-> pending.E0, E |-> ERRORS_checks,
                                      args |-> <<>>, sanity_raised |-> FALSE,
                                      save_raised |-> FALSE, data1 |-> LOG_data,
                                      saved |-> pending.saved,
                                      U0 |-> pending.U0, U |-> ev.U,
                                      save0 |-> pending.save0, save |-> ev.save,
                                      n_inactivate |-> n_inactivate,
                                      U1 |-> USER_config, len |-> pending.len])
             /\ pending' = NoPending
             /\ UNCHANGED <<now, timer, LOG_file, LOG_last_checked, LOG_data,
                            ERRORS_checks, CONFIG_file, cfg_min_count, cycles, commands>>

\* the first (user, rule) of status_error whose warning is due at t: the loop
\* over cfg.LIST_OF_USERS (line 996) and in it the loop over the rules
DueFor(E, i, t) == {k \in DOMAIN E : ~(t <= E[k].recs[LIST_OF_USERS[i]].sendNext)}

DueUsers(E, t) == {i \in DOMAIN LIST_OF_USERS : DueFor(E, i, t) # {}}

Least(S) == CHOOSE x \in S : \A y \in S : x <= y

\* read_log up to the first warning of status_error: the cycle waits in
\* send_message (line 1027) and sendNext and timesSent of the record are not
\* yet assigned (lines 1028-1030).  The timer of the next cycle is running
\* (line 1372), and no lock is taken: the next cycle and the command handlers
\* can run before the call returns.
read_log_send(delay, file) ==
    /\ cycles < MaxCycles
    /\ timer # None
    /\ pending = NoPending
    /\ LET t == timer + delay
           t1 == t + 1
           data == IF file.ok THEN file.data ELSE LOG_data
           last == IF file.ok THEN file.ts ELSE LOG_last_checked
           i_quiet == IF quiet_hours(t) THEN 1 ELSE 0
           errors_off == errors_off_from(ERRORS_checks, 1, data, last, t, i_quiet)
           added == new_warnings(remove_unknown(ERRORS_checks, data, last, t, i_quiet),
                                 data, last, t, i_quiet)
       IN /\ ~first_loop_raises(ERRORS_checks, data, last, t, i_quiet)
          /\ ~added.exc
          /\ \E st \in {status_error_off([E |-> added.E, LOG |-> data, out |-> <<>>,
                                           exc |-> FALSE, n |-> 0, errors_sent |-> FALSE],
                                          errors_off, 1, 0)} :
                /\ DueUsers(st.E, t1) # {}
                /\ LET i == Least(DueUsers(st.E, t1))
                       k == Least(DueFor(st.E, i, t1))
                   IN pending' = [cycle |-> TRUE, at |-> "status_error", t |-> t,
                                  t1 |-> t1, data |-> data, last |-> last,
                                  E0 |-> ERRORS_checks, U0 |-> USER_config,
                                  save0 |-> save_config, out |-> st.out, n |-> st.n,
                                  user |-> i, k |-> k, error |-> st.E[k].error,
                                  timesSent |-> st.E[k].recs[LIST_OF_USERS[i]].timesSent,
                                  size |-> Len(st.E), len |-> Len(hist)]
                /\ ERRORS_checks' = st.E
          /\ cycles' = cycles + 1
          /\ now' = t1
          /\ timer' = timer_started(t, FALSE)
          /\ LOG_file' = file
          /\ LOG_last_checked' = last
          /\ LOG_data' = data
          /\ UNCHANGED <<USER_config, save_config, CONFIG_file, cfg_min_count, commands,
                         hist>>

\* send_message returned: the rest of the cycle, from line 1028, on ERRORS_checks
\* as it is now.  A record that is gone raises KeyError; a dict whose size
\* changed raises RuntimeError at the next step of the loop over its keys.
read_log_sent ==
    /\ pending # NoPending
    /\ pending.at = "status_error"
    /\ LET chat_id == LIST_OF_USERS[pending.user]
           sent == Append(pending.out, Msg("warning", chat_id, pending.error, FALSE))
           st == [E |-> ERRORS_checks, LOG |-> LOG_data, out |-> sent, exc |-> FALSE,
                  n |-> pending.n + 1, errors_sent |-> TRUE]
           k == CHOOSE k \in DOMAIN ERRORS_checks : ERRORS_checks[k].error = pending.error
           r == IF ~Has(ERRORS_checks, pending.error) THEN [st EXCEPT !.exc = TRUE]
                ELSE IF Len(ERRORS_checks) # pending.size
                THEN [st EXCEPT !.E = warned(@, k, chat_id, pending.t1), !.exc = TRUE]
                ELSE LET s1 == status_error_errors(
                                   [st EXCEPT !.E = warned(@, k, chat_id, pending.t1)],
                                   chat_id, pending.k + 1, pending.t1, 0)
                     IN status_error(status_sensors(s1, chat_id, 0), pending.user + 1,
                                     pending.t1, 0)
       IN \E saved \in {IF r.exc THEN "none"
                        ELSE config_saved(save_config, r.E, pending.E0, FALSE)} :
          \E ev \in {IF r.exc
                     THEN [U |-> USER_config, save |-> save_config, out |-> r.out,
                           exc |-> TRUE, n |-> r.n, n_inactivate |-> <<>>]
                     ELSE check_user_notifications(USER_config, save_config, r.LOG, r.out,
                                                   r.n, 0)} :
             /\ LOG_data' = r.LOG
             /\ ERRORS_checks' = r.E
             /\ USER_config' = ev.U
             /\ save_config' = ev.save
             /\ CONFIG_file' = IF saved = "saved"
                               THEN [exists |-> TRUE, ERRORS_checks |-> r.E,
                                     USER_config |-> USER_config]
                               ELSE CONFIG_file
             /\ hist' = Append(hist, [kind |-> "cycle", user |-> "", t |-> pending.t,
                                      t1 |-> pending.t1,
                                      i_quiet |-> IF quiet_hours(pending.t) THEN 1 ELSE 0,
                                      raised |-> ev.exc, data |-> pending.data,
                                      last |-> pending.last, out |-> ev.out,
                                      E0 |-> pending.E0, E |-> r.E, args |-> <<>>,
                                      sanity_raised |-> r.exc, save_raised |-> FALSE,
                                      data1 |-> r.LOG, saved |-> (saved = "saved"),
                                      U0 |-> pending.U0, U |-> ev.U,
                                      save0 |-> pending.save0, save |-> ev.save,
                                      len |-> pending.len,
                                      waited |-> [user |-> chat_id, error |-> pending.error,
                                                  timesSent |-> pending.timesSent]])
             /\ pending' = NoPending
             /\ UNCHANGED <<now, timer, LOG_file, LOG_last_checked, cfg_min_count, cycles,
                            commands>>

\* variant: silencing starts the count of a user's warnings anew
silenced_recount(E, chat_id, hours, t) ==
    [k \in DOMAIN E |->
        [E[k] EXCEPT !.recs[chat_id].sendNext = t + Hours(hours),
                     !.recs[chat_id].timesSent = 0]]

\* variant: the warnings of every user are silenced
silenced_everyone(E, chat_id, hours, t) ==
    [k \in DOMAIN E |->
        [E[k] EXCEPT !.recs = [u \in Users |->
            [@[u] EXCEPT !.sendNext =
                IF hours = 0 THEN t - Minutes(WARNING_SEND_EVERY_MINUTES) ELSE t + Hours(hours)]]]]

\* variant: the warnings are re-enabled whatever the number of hours
silenced_enabled(E, chat_id, hours, t) ==
    [k \in DOMAIN E |->
        [E[k] EXCEPT !.recs[chat_id].sendNext = t - Minutes(WARNING_SEND_EVERY_MINUTES)]]

\* silence_errors(args=[hours]) by a registered user
silenced(E, chat_id, hours, t) ==
    [k \in DOMAIN E |->
        [E[k] EXCEPT !.recs[chat_id].sendNext =
            IF hours = 0 THEN t - Minutes(WARNING_SEND_EVERY_MINUTES) ELSE t + Hours(hours)]]

\* variant: every user id is served
restricted_anyone(user_id) == TRUE

\* @restricted, lines 137-152: the handler body runs only for a user id of
\* cfg.LIST_OF_USERS (in a private chat the user id is the chat id)
restricted(user_id) == user_id \in Users

\* the record of a chat command in hist
Command(kind, chat_id, args, served, raised, out, E, U, save, data1) ==
    [kind |-> kind, user |-> chat_id, t |-> now, t1 |-> now, i_quiet |-> 0,
     served |-> served, raised |-> raised, data |-> LOG_data, last |-> LOG_last_checked,
     out |-> out, E0 |-> ERRORS_checks, E |-> E, args |-> args, sanity_raised |-> FALSE,
     data1 |-> data1, saved |-> FALSE, U0 |-> USER_config, U |-> U,
     save0 |-> save_config, save |-> save]

Denied(kind, chat_id, args) ==
    Command(kind, chat_id, args, FALSE, FALSE, <<>>, ERRORS_checks, USER_config,
            save_config, LOG_data)

\* silence_errors(args=[hours]) by a user of users, as the dispatcher runs it
\* between two poll cycles or (concurrent) while a poll cycle waits in a call of
\* the transport
silence_errors_run(users, hours_set) ==
    \E chat_id \in users, hours \in hours_set :
        /\ commands < MaxCommands
        /\ commands' = commands + 1
        /\ IF restricted(chat_id)
           THEN /\ ERRORS_checks' = silenced(ERRORS_checks, chat_id, hours, now)
                /\ hist' = Append(hist,
                       Command("silence", chat_id, <<hours>>, TRUE, FALSE,
                               <<Reply(chat_id, "silence", hours)>>,
                               silenced(ERRORS_checks, chat_id, hours, now),
                               USER_config, save_config, LOG_data))
           ELSE /\ ERRORS_checks' = ERRORS_checks
                /\ hist' = Append(hist, Denied("silence", chat_id, <<hours>>))
        /\ UNCHANGED <<now, timer, LOG_file, LOG_last_checked, LOG_data, USER_config,
                       save_config, CONFIG_file, cfg_min_count, cycles, pending>>

\* silence_errors(args=[hours]) by a user of users, between two poll cycles
silence_errors_by(users, hours_set) == pending = NoPending /\ silence_errors_run(users, hours_set)

\* silence_errors(args=[hours]) by a registered user
silence_errors(hours_set) == silence_errors_by(Users, hours_set)

\* the notify command as the dispatcher runs it between two poll cycles or
\* (concurrent) while a poll cycle is inside check_user_notifications
notify(users, inputs, max) ==
    \E chat_id \in users, args \in inputs :
        /\ commands < max
        /\ commands' = commands + 1
        /\ IF ~restricted(chat_id)
           THEN /\ hist' = Append(hist, Denied("notify", chat_id, args) @@
                                        [num_changed |-> 0])
                /\ UNCHANGED <<USER_config, save_config>>
           ELSE IF chat_id \notin DOMAIN USER_config
           THEN \* self.USER_config[chat_id]: KeyError
                /\ hist' = Append(hist, [Denied("notify", chat_id, args)
                                             EXCEPT !.served = TRUE, !.raised = TRUE] @@
                                        [num_changed |-> 0])
                /\ UNCHANGED <<USER_config, save_config>>
           ELSE \E r \in {notifications_managed(USER_config, save_config, LOG_data,
                                                chat_id, args)} :
                /\ USER_config' = r.U
                /\ save_config' = r.save
                /\ hist' = Append(hist,
                       Command("notify", chat_id, args, TRUE, r.exc, r.out, ERRORS_checks,
                               r.U, r.save, LOG_data) @@ [num_changed |-> r.num_changed])
        /\ UNCHANGED <<now, timer, LOG_file, LOG_last_checked, LOG_data, ERRORS_checks,
                       CONFIG_file, cfg_min_count, cycles, pending>>

\* user_notifications_manage(args) by a user of users, as one of at most max
\* chat commands, between two poll cycles
user_notifications_manage(users, inputs, max) ==
    pending = NoPending /\ notify(users, inputs, max)

\* add_to_last_commands(user, ["status", []])
add_to_last_commands(U, user) ==
    IF U[user].last_commands = <<>> \/ U[user].last_commands[Len(U[user].last_commands)] # "status"
    THEN [U EXCEPT ![user].last_commands = Append(@, "status")]
    ELSE U

\* status_sensors on the request of a user of users: the command is added to the
\* user's last commands, replace_lowerthan(self.LOG_data), then the message
status_request(users) ==
    \E chat_id \in users :
        /\ commands < MaxCommands
        /\ pending = NoPending
        /\ commands' = commands + 1
        /\ IF ~restricted(chat_id)
           THEN /\ hist' = Append(hist, Denied("status", chat_id, <<>>))
                /\ UNCHANGED <<USER_config, save_config, LOG_data>>
           ELSE IF chat_id \notin DOMAIN USER_config
           THEN \* self.USER_config[user]: KeyError
                /\ hist' = Append(hist, [Denied("status", chat_id, <<>>)
                                             EXCEPT !.served = TRUE, !.raised = TRUE])
                /\ UNCHANGED <<USER_config, save_config, LOG_data>>
           ELSE /\ USER_config' = add_to_last_commands(USER_config, chat_id)
                /\ save_config' = (save_config \/ USER_config' # USER_config)
                /\ LOG_data' = replace_lowerthan(LOG_data)
                /\ hist' = Append(hist,
                       Command("status", chat_id, <<>>, TRUE, FALSE,
                               <<Msg("status", chat_id, "", FALSE)>>, ERRORS_checks,
                               USER_config', save_config', LOG_data'))
        /\ UNCHANGED <<now, timer, LOG_file, LOG_last_checked, ERRORS_checks,
                       CONFIG_file, cfg_min_count, cycles, pending>>

----------------------------------------------------------------------------
(* Specifications.  Each one draws the start time, the delays of the poll   *)
(* cycles and the log lines from the sets its claims are about.  A cycle    *)
(* runs when its timer is due (delay 0) or later (the timer thread is       *)
(* scheduled late, the host was suspended).                                 *)

Reading(p, q) == [c \in ColumnSet |-> IF c = PAFM THEN p ELSE q]
NoFailure == {0}
Monday0759 == Hours(8) - 30
Saturday0900 == Days(5) + Hours(9)
HalfHourLate == Minutes(30) - READ_LOG_EVERY_SECONDS
HourLate == Minutes(60) - READ_LOG_EVERY_SECONDS

\* Spec: the pressure limit rule around its two limits, in and out of quiet hours
PollDelays == {0, HalfHourLate, HourLate}
Readings == {Reading(p, Num(15)) : p \in {Num(5), Num(50), Num(1000)}}

Init == InitWith({Monday0759, Saturday0900}, {0}, {NoRules})

Next ==
    \/ PollNewLine(PollDelays, Readings, NoFailure)
    \/ PollSameFile({HalfHourLate}, NoFailure)
    \/ PollNoFile({HalfHourLate}, NoFailure)

Spec == Init /\ [][Next]_vars

\* SpecMin: the temperature limit rule with a configured 'min_count'
DelaysMin == {0, HalfHourLate}
ReadingsMin == {Reading(Num(5), q) : q \in {Num(15), Num(40)}}

InitMin == InitWith({Saturday0900}, 0..MaxMinCount, {NoRules})

NextMin ==
    \/ PollNewLine(DelaysMin, ReadingsMin, NoFailure)
    \/ silence_errors({2})

SpecMin == InitMin /\ [][NextMin]_vars

\* SpecLow: values <= 0 (sentinel codes and values that match none)
DelaysLow == {0, HourLate}
ReadingsLow ==
    {Reading(p, Num(15)) : p \in {Num(-3000), Num(-2000), Num(-500), Num(0), Num(5)}}
    \cup {Reading(Num(-3000), Num(-500))}

InitLow == InitWith({Saturday0900}, {0}, {NoRules})

NextLow == PollNewLine(DelaysLow, ReadingsLow, NoFailure)

SpecLow == InitLow /\ [][NextLow]_vars

\* SpecFail: the transport may raise
ReadingsFail == {Reading(p, Num(15)) : p \in {Num(5), Num(50)}}

InitFail == InitWith({Saturday0900}, {0}, {NoRules})

NextFail == PollNewLine(DelaysLow, ReadingsFail, 0..MaxFailAt)

SpecFail == InitFail /\ [][NextFail]_vars

\* SpecCount: a rule that stays ON while the transport may raise and users silence
\* and re-enable their warnings
SilenceHours == {0, 2}

InitCount == InitWith({Saturday0900}, {0}, {NoRules})

NextCount ==
    \/ PollNewLine({HourLate}, {Reading(Num(50), Num(15))}, 0..MaxFailAt)
    \/ silence_errors(SilenceHours)

SpecCount == InitCount /\ [][NextCount]_vars

\* SpecSilence: a rule that goes ON and OFF while users silence and re-enable
\* their warnings
TempBelow10 == Notification(TAFM, -1, float(<<"1", "0">>), "unset")
OneRule == [NoRules EXCEPT !["007"] = Notifications(<<TempBelow10>>)]

InitSilence == InitWith({Saturday0900}, {0}, {NoRules, OneRule})

NextSilence ==
    \/ PollNewLine({HalfHourLate, Minutes(90) - READ_LOG_EVERY_SECONDS}, ReadingsFail,
                   NoFailure)
    \/ silence_errors(SilenceHours)

SpecSilence == InitSilence /\ [][NextSilence]_vars

\* SpecOneShot: a user sets up the rule "temp < 10" and re-activates it, while
\* the temperature is 5 K or 15 K
ArgsTempBelow10 == <<<<"t", "e", "m", "p">>, <<"<">>, <<"1", "0">>>>
ArgsAct1 == <<<<"a", "c", "t">>, <<"1">>>>

InitOneShot == InitWith({Saturday0900}, {0}, {NoRules})

NextOneShot ==
    \/ PollNewLine({0}, {Reading(Num(5), Num(5)), Reading(Num(5), Num(15))}, NoFailure)
    \/ PollSameFile({0}, NoFailure)
    \/ user_notifications_manage({"007"}, {ArgsTempBelow10, ArgsAct1}, MaxNotify)

SpecOneShot == InitOneShot /\ [][NextOneShot]_vars

\* SpecEval: the rules of the users, as the config file has them ("temp < 10",
\* active or not, and "pafm > 1e-9"), against values below, at and above the limits,
\* nan, a sentinel code that the status message replaces, and a line without the
\* column
TempBelow10Off == Notification(TAFM, -1, float(<<"1", "0">>), "false")
PressureAbove1e9 == Notification(PAFM, 1, float(<<"1", "e", "-", "9">>), "true")
RulesEval == {TempBelow10, TempBelow10Off, PressureAbove1e9}

RECURSIVE ListsOf(_, _)
ListsOf(rules, len) ==
    IF len = 0 THEN {<<>>}
    ELSE ListsOf(rules, len - 1)
         \cup {Append(ns, n) : ns \in ListsOf(rules, len - 1), n \in rules}

ConfigsEval ==
    {[u \in Users |-> IF u = "007" THEN Notifications(ns) ELSE Notifications(<<TempBelow10>>)] :
        ns \in ListsOf(RulesEval, MaxRules)}

ReadingsEval ==
    {Reading(Num(5), Num(5)), Reading(Num(10), Num(10)), Reading(Num(50), Num(15)),
     Reading(Num(5), NaN), Reading(Num(5), Absent), Reading(Num(5), Num(-1000))}

InitEval == InitWith({Saturday0900}, {0}, ConfigsEval)

NextEval == PollNewLine({0}, ReadingsEval, NoFailure)

SpecEval == InitEval /\ [][NextEval]_vars

\* SpecParse: a user sends a rule to add, well formed or not, before and after
\* log lines were read
InputsGood ==
    {ArgsTempBelow10,
     <<<<"t", "e", "m", "p", "<", "1", "0">>>>,
     <<<<"T", "e", "m", "p">>, <<"l", "t">>, <<"1", ",", "0", "e", "1", "k">>>>,
     <<<<"p", "a", "f", "m">>, <<">">>, <<"1", "e", "-", "9", "m", "b", "a", "r">>>>}
InputsNotThree ==
    {<<<<"a", "d", "d">>>>,
     <<<<"t", "e", "m", "p">>, <<"=">>, <<"1", "0">>>>,
     <<<<"t", "e", "m", "p">>, <<"<">>, <<"1", "0">>, <<"5">>>>}
InputsBadColumn == {<<<<"f", "o", "o">>, <<"<">>, <<"1", "0">>>>}
InputsBadComparator == {<<<<"t", "e", "m", "p">>, <<"x">>, <<"1", "0">>>>}
InputsBadLimit ==
    {<<<<"t", "e", "m", "p">>, <<"<">>, <<"a", "b", "c">>>>,
     <<<<"t", "e", "m", "p">>, <<"<">>, <<"k">>>>}

ConfigsParse ==
    {[u \in Users |-> IF u = "007" THEN Notifications(ns) ELSE Notifications(<<TempBelow10>>)] :
        ns \in ListsOf({TempBelow10Off}, MaxRules)}
    \cup {NoRules}

InitParse == InitWith({Saturday0900}, {0}, ConfigsParse)

NextParse ==
    \/ PollNewLine({0}, {Reading(Num(5), Num(15))}, NoFailure)
    \/ user_notifications_manage({"007"},
            InputsGood \cup InputsNotThree \cup InputsBadColumn \cup InputsBadComparator
            \cup InputsBadLimit, MaxCommands)

SpecParse == InitParse /\ [][NextParse]_vars

\* SpecChange: a user activates, deactivates or deletes rules of the list that was
\* loaded, by batches of distinct indices, in range and out of range, and by "all"
Batches ==
    << [args |-> <<<<"1">>>>, indices |-> {1}],
       [args |-> <<<<"2">>, <<"1">>>>, indices |-> {1, 2}],
       [args |-> <<<<"1">>, <<"2">>>>, indices |-> {1, 2}],
       [args |-> <<<<"0">>, <<"2">>>>, indices |-> {0, 2}],
       [args |-> <<<<"-", "1">>, <<"1">>>>, indices |-> {-1, 1}],
       [args |-> <<<<"4">>, <<"1">>, <<"3">>>>, indices |-> {1, 3, 4}] >>
ActionKeywords ==
    << [keyword |-> <<"a", "c", "t", "i", "v", "a", "t", "e">>, action |-> "act"],
       [keyword |-> <<"d", "e", "a", "c", "t">>, action |-> "deact"],
       [keyword |-> <<"d", "e", "l">>, action |-> "del"] >>
InputsChange ==
    {<<ActionKeywords[a].keyword>> \o Batches[b].args :
        a \in DOMAIN ActionKeywords, b \in DOMAIN Batches}
    \cup {<<ActionKeywords[a].keyword, KEYWORD_ALL>> : a \in DOMAIN ActionKeywords}

ConfigsChange ==
    {[u \in Users |-> IF u = "007" THEN Notifications(ns) ELSE Notifications(<<TempBelow10>>)] :
        ns \in ListsOf(RulesEval, MaxRules)}

InitChange == InitWith({Saturday0900}, {0}, ConfigsChange)

NextChange == user_notifications_manage({"007"}, InputsChange, MaxCommands)

SpecChange == InitChange /\ [][NextChange]_vars

\* SpecAbort: the transport may raise while both limit rules and the users'
\* notification rules have something to deliver
ReadingsAbort == {Reading(Num(50), Num(40)), Reading(Num(5), Num(15)), Reading(Num(5), Num(5))}

ConfigAbort ==
    [u \in Users |-> IF u = "007" THEN Notifications(<<TempBelow10, PressureAbove1e9>>)
                     ELSE Notifications(<<TempBelow10>>)]

InitAbort == InitWith({Saturday0900}, {0}, {ConfigAbort})

NextAbort == PollNewLine({0}, ReadingsAbort, 0..MaxFailAt)

SpecAbort == InitAbort /\ [][NextAbort]_vars

\* SpecStore: the bot starts from a config file that holds the record of a rule
\* that is no longer configured; the config file may be unwritable
Loaded(error, value, timesSent) ==
    [error |-> error,
     recs |-> [u \in Users |-> [sendNext |-> Saturday0900 - Minutes(10),
                                timesSent |-> timesSent, value |-> value]]]

FilesStore ==
    {[exists |-> TRUE, ERRORS_checks |-> E, USER_config |-> OneRule] :
        E \in {<<Loaded("ERROR_removed", ValueEmpty, 1)>>,
               <<Loaded("ERROR_pressure_afm", ValueOf(Num(50)), 1),
                 Loaded("ERROR_removed", ValueEmpty, 1)>>}}

ReadingsStore == {Reading(Num(5), Num(5)), Reading(Num(5), Num(15)), Reading(Num(50), Num(15))}

InitStore == InitLoad({Saturday0900}, {0}, FilesStore)

NextStore ==
    \/ PollSave({0}, ReadingsStore, {FALSE, TRUE})
    \/ PollNoFile({0}, NoFailure)

SpecStore == InitStore /\ [][NextStore]_vars

\* SpecData: readings with a sentinel code, nan or a missing column, cycles that
\* find no log line, and status requests; 007 has the rule 'TAFM[K] < 10'
ReadingsData ==
    {Reading(Num(5), q) : q \in {Num(-1000), NaN, Absent, Num(15)}}

InitData == InitWith({Saturday0900}, {0}, {OneRule})

NextData ==
    \/ PollNewLine({0}, ReadingsData, NoFailure)
    \/ PollNoFile({0}, NoFailure)
    \/ status_request(Users)

SpecData == InitData /\ [][NextData]_vars

\* SpecGate: chat commands of registered users and of a user id that is not in
\* cfg.LIST_OF_USERS, between poll cycles that warn and notify
Stranger == "999"

ArgsDel1 == <<ActionKeywords[3].keyword, Batches[1].args[1]>>

NextGate ==
    \/ PollNewLine({0}, {Reading(Num(50), Num(5))}, NoFailure)
    \/ silence_errors_by(Users \cup {Stranger}, {2})
    \/ user_notifications_manage(Users \cup {Stranger}, {ArgsTempBelow10, ArgsDel1},
                                 MaxCommands)
    \/ status_request(Users \cup {Stranger})

SpecGate == InitStore /\ [][NextGate]_vars

\* SpecRaise: cycles that raise (the transport, a str left in LOG_data, an
\* unwritable config file), each followed by further cycles
ReadingsRaise == {Reading(Num(50), Num(15)), Reading(Num(5), NaN)}

NextRaise ==
    \/ PollNewLine({0}, ReadingsRaise, 0..MaxFailAt)
    \/ PollNoFile({0}, NoFailure)
    \/ PollSave({0}, ReadingsRaise, {TRUE})

SpecRaise == InitAbort /\ [][NextRaise]_vars

\* SpecRace: the timer thread and the dispatcher thread.  A notify command can
\* run between two poll cycles or while a cycle is inside
\* check_user_notifications.
ReadingsRace == {Reading(Num(50), Num(5)), Reading(Num(50), Num(15)), Reading(Num(5), Num(5))}

NextRace ==
    \/ \E reading \in ReadingsRace :
          read_log_begin(0, [ok |-> TRUE, ts |-> timer, data |-> reading])
    \/ read_log_end
    \/ notify({"007"}, {ArgsDel1, ArgsAct1, ArgsTempBelow10}, MaxCommands)

SpecRace == InitAbort /\ [][NextRace]_vars

\* SpecResend: two rules of one user fire in the same cycle, on readings that
\* raise no alarm, and the transport may raise on any delivery
ConfigResend ==
    [u \in Users |->
        IF u = "007"
        THEN Notifications(<<TempBelow10,
                             Notification(PAFM, -1, float(<<"1", "e", "-", "9">>), "true")>>)
        ELSE Notifications(<<TempBelow10>>)]

ReadingsResend == {Reading(Num(5), Num(5)), Reading(Num(5), Num(15)), Reading(Num(50), Num(15))}

InitResend == InitWith({Saturday0900}, {0}, {ConfigResend})

NextResend ==
    \/ PollNewLine({0}, ReadingsResend, 0..MaxFailAt)
    \/ PollSameFile({0}, 0..MaxFailAt)

SpecResend == InitResend /\ [][NextResend]_vars

\* SpecNever: activate, deactivate and delete commands of users who have rules
\* and of users who never added one (no config file, or a file in which only
\* the first user has a rule), between poll cycles
InitNever == InitWith({Saturday0900}, {0}, {NoRules, OneRule})

NextNever ==
    \/ user_notifications_manage(Users, InputsChange, MaxCommands)
    \/ PollNewLine({0}, {Reading(Num(5), Num(15)), Reading(Num(5), Num(5))}, NoFailure)

SpecNever == InitNever /\ [][NextNever]_vars

\* SpecRepeat: activate, deactivate and delete commands whose batch names an
\* index more than once
BatchesRepeat ==
    << [args |-> <<<<"1">>, <<"1">>>>, indices |-> {1}],
       [args |-> <<<<"2">>, <<"2">>>>, indices |-> {2}],
       [args |-> <<<<"1">>, <<"2">>, <<"1">>>>, indices |-> {1, 2}] >>

InputsRepeat ==
    {<<ActionKeywords[a].keyword>> \o BatchesRepeat[b].args :
        a \in DOMAIN ActionKeywords, b \in DOMAIN BatchesRepeat}

NextRepeat == user_notifications_manage({"007"}, InputsRepeat, MaxCommands)

SpecRepeat == InitChange /\ [][NextRepeat]_vars

\* SpecNoLog: the logger stops: cycles that read a new line, then cycles that
\* find no log line, 30 seconds or more than WARNING_NOLOG_MINUTES later
ReadingsNoLog ==
    {Reading(Num(5), Num(15)), Reading(Num(50), Num(15)), Reading(Num(-3000), Num(15))}

DelaysNoLog == {0, Minutes(WARNING_NOLOG_MINUTES + 1)}

InitNoLog == InitWith({Saturday0900}, {0}, {NoRules})

NextNoLog ==
    \/ PollNewLine({0}, ReadingsNoLog, NoFailure)
    \/ PollNoFile(DelaysNoLog, NoFailure)

SpecNoLog == InitNoLog /\ [][NextNoLog]_vars

\* SpecOverlap: a poll cycle waits in the transport for longer than
\* READ_LOG_EVERY_SECONDS while it sends a warning; the next cycle starts when
\* its timer fires, and a user may send a silence command
ReadingsOverlap == {Reading(Num(50), Num(15)), Reading(Num(5), Num(15))}

NextOverlap ==
    \/ \E reading \in ReadingsOverlap :
          read_log_send(0, [ok |-> TRUE, ts |-> timer, data |-> reading])
    \/ read_log_sent
    \/ \E reading \in ReadingsOverlap :
          read_log_run(0, [ok |-> TRUE, ts |-> timer, data |-> reading], 0, FALSE)
    \/ silence_errors_run(Users, {2})

SpecOverlap == InitSilence /\ [][NextOverlap]_vars

\* SpecQuiet: poll cycles around the limits of the quiet hours, on every weekday
StartsQuiet ==
    {Days(d) + Hours(h) - s : d \in 0..6,
        h \in {QUIET_TIMES_HOURS_START, QUIET_TIMES_HOURS_END, 12, 24}, s \in {30, 60}}

InitQuiet == InitWith(StartsQuiet, {0}, {NoRules})

NextQuiet == PollNewLine({0}, {Reading(Num(5), Num(15))}, NoFailure)

SpecQuiet == InitQuiet /\ [][NextQuiet]_vars

----------------------------------------------------------------------------
(* The rules and their conditions, as the rule set declares them, and the   *)
(* vocabulary of the properties: hist[i] is the i-th poll cycle or command. *)

TableErrors(table) == {table[i].error : i \in DOMAIN table}
AllErrors ==
    {"ERROR_log_read"} \cup TableErrors(ERROR_COLUMNS_MUSTHAVE) \cup TableErrors(ERROR_LIMITS_MAX)
    \cup TableErrors(ERROR_LOWERTHAN_VALUES) \cup {ERROR_LOWERTHAN_DEFAULT, ERROR_UNKNOWN_VALUES}

Condition(error, data, last, t, i_quiet) ==
    IF error = "ERROR_log_read" THEN
        last = None \/ t - last > Minutes(WARNING_NOLOG_MINUTES)
    ELSE IF HasCfg(ERROR_COLUMNS_MUSTHAVE, error) THEN
        ~In(Cfg(ERROR_COLUMNS_MUSTHAVE, error).column, data)
    ELSE IF HasCfg(ERROR_LIMITS_MAX, error) THEN
        LET r == Cfg(ERROR_LIMITS_MAX, error)
        IN In(r.column, data) /\ IsNum(data[r.column])
           /\ data[r.column].v > r.limits[i_quiet + 1]
    ELSE IF HasCfg(ERROR_LOWERTHAN_VALUES, error) THEN
        LET r == Cfg(ERROR_LOWERTHAN_VALUES, error)
        IN In(r.column, data) /\ IsNum(data[r.column]) /\ data[r.column].v = r.value
    ELSE IF error = ERROR_LOWERTHAN_DEFAULT THEN
        \E i \in DOMAIN ERROR_LOWERTHAN :
            LET c == ERROR_LOWERTHAN[i].column
            IN /\ In(c, data) /\ IsNum(data[c]) /\ data[c].v <= 0
               /\ ~\E j \in DOMAIN ERROR_LOWERTHAN_VALUES :
                     /\ ERROR_LOWERTHAN_VALUES[j].column = c
                     /\ ERROR_LOWERTHAN_VALUES[j].value = data[c].v
    ELSE IF error = ERROR_UNKNOWN_VALUES THEN
        \E c \in ColumnSet : In(c, data) /\ IsNaN(data[c])
    ELSE FALSE

Delivered(out, kind, user, error) ==
    Cardinality({i \in DOMAIN out :
        out[i].kind = kind /\ out[i].user = user /\ out[i].error = error})

Cycle(i) == i \in DOMAIN hist /\ hist[i].kind = "cycle"
Consecutive(i, j) == Cycle(i) /\ Cycle(j) /\ i < j /\ \A k \in (i + 1)..(j - 1) : ~Cycle(k)
Holds(e, i) == Condition(e, hist[i].data, hist[i].last, hist[i].t, hist[i].i_quiet)
Warnings(i, u, e) == Delivered(hist[i].out, "warning", u, e)
Dewarnings(i, u, e) == Delivered(hist[i].out, "dewarning", u, e)
Fires(e, i) == Cycle(i) /\ ~Has(hist[i].E0, e) /\ Has(hist[i].E, e)
FreshLine(i) == hist[i].last = hist[i].t
SendInterval == Minutes(WARNING_SEND_EVERY_MINUTES)

TimeOfDay(t) == t % Days(1)
Weekday(t) == (t \div Days(1)) % 7
QuietTime(t) ==
    /\ Weekday(t) \in QUIET_TIMES_WEEKDAYS
    /\ Hours(QUIET_TIMES_HOURS_START) < TimeOfDay(t)
    /\ TimeOfDay(t) < Hours(QUIET_TIMES_HOURS_END)

Above(e_dict, i) ==
    LET x == hist[i].data[e_dict.column]
    IN IsNum(x) /\ x.v > e_dict.limits[hist[i].i_quiet + 1]
Below(e_dict, i) ==
    LET x == hist[i].data[e_dict.column]
    IN IsNum(x) /\ x.v < e_dict.limits[hist[i].i_quiet + 1]

----------------------------------------------------------------------------
\* C1: rate limiting.  While the condition of a rule stays true over the poll
\* cycles and the user does not silence, two warnings of the rule to the user
\* are at least WARNING_SEND_EVERY_MINUTES apart.
\* Refuted under SpecLow: a value <= 0 that matches no sentinel code turns
\* ERROR_lowerthan ON, the next cycle clears it (its OFF test is "<= -1000"),
\* the cycle after turns it ON again and warns again.
C1_RateLimit ==
    \A e \in AllErrors, u \in Users : \A i, j \in DOMAIN hist :
        ( /\ i < j /\ Cycle(i) /\ Cycle(j)
          /\ Warnings(i, u, e) > 0 /\ Warnings(j, u, e) > 0
          /\ \A k \in i..j : IF Cycle(k) THEN Holds(e, k) ELSE hist[k].user # u )
        => hist[j].t1 - hist[i].t1 >= SendInterval

----------------------------------------------------------------------------
\* C2: hysteresis.  A MaxLimit rule with min_count <= 1 that is turned ON by a
\* value above its limit in one cycle and finds the value below its limit in
\* the next cycle gives every user exactly one warning in the first cycle and
\* exactly one de-warning in the second (no exception ending either cycle);
\* and no cycle sends the de-warning of a MaxLimit rule to a user whose
\* timesSent is 0.
C2_Hysteresis ==
    \A n \in DOMAIN ERROR_LIMITS_MAX :
        LET e_dict == ERROR_LIMITS_MAX[n]
            e == e_dict.error
        IN /\ \A i, j \in DOMAIN hist :
                ( /\ Consecutive(i, j) /\ MinCountOf(e_dict) <= 1
                  /\ ~hist[i].raised /\ ~hist[j].raised
                  /\ ~Has(hist[i].E0, e) /\ Above(e_dict, i) /\ Below(e_dict, j) )
                => \A u \in Users :
                      /\ Warnings(i, u, e) = 1 /\ Dewarnings(i, u, e) = 0
                      /\ Warnings(j, u, e) = 0 /\ Dewarnings(j, u, e) = 1
                      /\ ~Has(hist[j].E, e)
           /\ \A j \in DOMAIN hist, u \in Users :
                ( /\ Cycle(j) /\ Has(hist[j].E0, e)
                  /\ Recs(hist[j].E0, e)[u].timesSent = 0 )
                => Dewarnings(j, u, e) = 0

\* a rule with min_count = 1 went ON and OFF in two cycles, with a command in between
C2_Witness ==
    \E i, j \in DOMAIN hist :
        /\ Consecutive(i, j) /\ j = i + 2 /\ cfg_min_count = 1
        /\ Fires("ERROR_temperature_afm", i)
        /\ Above(ERROR_LIMITS_MAX[2], i) /\ Below(ERROR_LIMITS_MAX[2], j)
        /\ \A u \in Users : Dewarnings(j, u, "ERROR_temperature_afm") = 1

----------------------------------------------------------------------------
\* C3: the scenario of ERROR_pressure_afm (limits 1e-9 and 8e-8 mbar, no
\* min_count) outside quiet hours, no rule being ON.  A line with PAFM = 5e-9
\* at t0 turns the rule ON and every user gets one warning (timesSent = 1,
\* sendNext = the time of the delivery + 60 min); the same value in a line
\* 30 min later delivers nothing; PAFM = 5e-10 in a line 90 min after t0
\* removes the record and every user gets exactly one de-warning.  (No
\* exception ends any of the three cycles.)
PressureAt(i, v) == FreshLine(i) /\ hist[i].data[PAFM] = Num(v) /\ ~hist[i].raised

C3_Scenario ==
    LET e == "ERROR_pressure_afm"
    IN \A i \in DOMAIN hist :
        (Cycle(i) /\ ~QuietTime(hist[i].t) /\ hist[i].E0 = <<>> /\ PressureAt(i, 50))
        => /\ Len(hist[i].out) = 2 * Len(LIST_OF_USERS)
           /\ \A u \in Users :
                /\ Warnings(i, u, e) = 1
                /\ Recs(hist[i].E, e)[u].timesSent = 1
                /\ Recs(hist[i].E, e)[u].sendNext = hist[i].t1 + Minutes(60)
           /\ \A j \in DOMAIN hist :
                ( /\ Consecutive(i, j) /\ hist[j].t = hist[i].t + Minutes(30)
                  /\ ~QuietTime(hist[j].t) /\ PressureAt(j, 50) )
                => /\ hist[j].out = <<>>
                   /\ hist[j].E = hist[i].E
                   /\ \A k \in DOMAIN hist :
                        ( /\ Consecutive(j, k) /\ hist[k].t = hist[i].t + Minutes(90)
                          /\ ~QuietTime(hist[k].t) /\ PressureAt(k, 5) )
                        => /\ ~Has(hist[k].E, e)
                           /\ Len(hist[k].out) = Len(LIST_OF_USERS)
                           /\ \A u \in Users : Dewarnings(k, u, e) = 1

\* the three lines were read, 30 and 90 minutes apart, and the record is gone
C3_Witness ==
    /\ Len(hist) = 3
    /\ \A i \in 1..3 : Cycle(i) /\ ~QuietTime(hist[i].t)
    /\ PressureAt(1, 50) /\ PressureAt(2, 50) /\ PressureAt(3, 5)
    /\ hist[2].t = hist[1].t + Minutes(30) /\ hist[3].t = hist[1].t + Minutes(90)
    /\ Fires("ERROR_pressure_afm", 1)
    /\ ~Has(ERRORS_checks, "ERROR_pressure_afm")

----------------------------------------------------------------------------
\* C4: clearing.  When a cycle clears a rule, every user whose timesSent for
\* the rule is > 0 gets exactly one de-warning, every user whose timesSent is
\* 0 gets none, and the record of the rule is gone for all users.  (A cycle
\* in which the transport raised before the record was removed has not
\* cleared the rule.)
Marked(e, i) ==
    LET errors_off == errors_off_from(hist[i].E0, 1, hist[i].data, hist[i].last,
                                      hist[i].t, hist[i].i_quiet)
    IN \E n \in DOMAIN errors_off : errors_off[n].error = e

C4_Clear ==
    \A i \in DOMAIN hist, e \in AllErrors :
        (Cycle(i) /\ Marked(e, i) /\ (~hist[i].raised \/ ~Has(hist[i].E, e)))
        => /\ ~Has(hist[i].E, e)
           /\ \A u \in Users :
                Dewarnings(i, u, e) = IF Recs(hist[i].E0, e)[u].timesSent > 0 THEN 1 ELSE 0

\* a rule was cleared that had warned one user and not the other
C4_Witness ==
    \E i \in DOMAIN hist :
        LET e == "ERROR_pressure_afm"
        IN /\ Cycle(i) /\ Marked(e, i) /\ ~Has(hist[i].E, e)
           /\ Recs(hist[i].E0, e)["007"].timesSent > 0 /\ Dewarnings(i, "007", e) = 1
           /\ Recs(hist[i].E0, e)["008"].timesSent = 0 /\ Dewarnings(i, "008", e) = 0

----------------------------------------------------------------------------
\* C5: first fire.  When the condition of a rule without min_count is true
\* and the rule is not ON, check_sanity creates an entry for every user of
\* LIST_OF_USERS with timesSent = 0, the offending value and a sendNext that
\* has passed, and status_error of the same cycle, unless an exception ends
\* it, sends the warning to every user.
HasMinCount(e) == HasCfg(ERROR_LIMITS_MAX, e) /\ MinCountOf(Cfg(ERROR_LIMITS_MAX, e)) > 0

Added(i) ==
    new_warnings(remove_unknown(hist[i].E0, hist[i].data, hist[i].last, hist[i].t,
                                hist[i].i_quiet),
                 hist[i].data, hist[i].last, hist[i].t, hist[i].i_quiet).E

C5_FirstFire ==
    \A i \in DOMAIN hist, e \in AllErrors :
        (Cycle(i) /\ ~Has(hist[i].E0, e) /\ Holds(e, i) /\ ~HasMinCount(e))
        => /\ Has(Added(i), e)
           /\ \A u \in Users :
                LET rec == Recs(Added(i), e)[u]
                IN /\ rec.timesSent = 0
                   /\ rec.sendNext < hist[i].t
                   /\ HasCfg(ERROR_LIMITS_MAX, e)
                        => rec.value = ValueOf(hist[i].data[Cfg(ERROR_LIMITS_MAX, e).column])
           /\ ~hist[i].raised
                => \A u \in Users :
                      /\ Warnings(i, u, e) = 1
                      /\ Recs(hist[i].E, e)[u].timesSent = 1

\* the pressure rule went ON and warned both users in the same cycle
C5_Witness ==
    \E i \in DOMAIN hist :
        /\ Fires("ERROR_pressure_afm", i) /\ Holds("ERROR_pressure_afm", i)
        /\ \A u \in Users : Warnings(i, u, "ERROR_pressure_afm") = 1

----------------------------------------------------------------------------
\* C6: after every completed poll cycle, the record of a rule exists if and
\* only if the condition of the rule is true for the reading of the cycle.
\* Refuted under SpecLow: ERROR_lowerthan is turned ON by a value <= 0 that
\* matches no sentinel code and is cleared by the next cycle unless the value
\* is <= cfg.ERROR_LOWERTHAN of its column (-1000), the condition being true.
C6_RecordIffCondition ==
    \A i \in DOMAIN hist :
        (Cycle(i) /\ ~hist[i].raised)
        => \A e \in AllErrors : Has(hist[i].E, e) <=> Holds(e, i)

----------------------------------------------------------------------------
\* C7: timesSent of every entry (rule, user) is >= 0 and is the number of
\* warnings of the rule delivered to the user since the record was created;
\* a silence command, a cycle that leaves the rule ON and a send that raised
\* leave it as it was.
Created(e, i) ==
    CHOOSE k \in 1..i :
        /\ \A m \in k..i : Has(hist[m].E, e)
        /\ k = 1 \/ ~Has(hist[k - 1].E, e)

RECURSIVE WarningsFrom(_, _, _, _)
WarningsFrom(k, i, u, e) ==
    IF k > i THEN 0 ELSE Warnings(k, u, e) + WarningsFrom(k + 1, i, u, e)

C7_TimesSent ==
    \A i \in DOMAIN hist : \A n \in DOMAIN hist[i].E : \A u \in Users :
        LET e == hist[i].E[n].error
            rec == hist[i].E[n].recs[u]
        IN /\ rec.timesSent >= 0
           /\ rec.timesSent = WarningsFrom(Created(e, i), i, u, e)
           /\ (~Cycle(i) /\ Has(hist[i].E0, e))
                => rec.timesSent = Recs(hist[i].E0, e)[u].timesSent

\* a send raised, a user re-enabled the warnings, and the counts of the two users differ
C7_Witness ==
    /\ \E i \in DOMAIN hist : Cycle(i) /\ hist[i].raised
    /\ \E i \in DOMAIN hist : ~Cycle(i) /\ hist[i].E0 # <<>>
    /\ Has(ERRORS_checks, "ERROR_pressure_afm")
    /\ Recs(ERRORS_checks, "ERROR_pressure_afm")["007"].timesSent = 2
    /\ Recs(ERRORS_checks, "ERROR_pressure_afm")["008"].timesSent = 1

----------------------------------------------------------------------------
\* C8: min-count delay.  A MaxLimit rule with min_count = k > 1 that goes ON
\* at time t gets sendNext = t + (k - 1) * READ_LOG_EVERY_SECONDS seconds and
\* sends nothing in that cycle; with k = 2 the next poll, one poll period
\* later and the value still above the limit, delivers the first warning to
\* every user who has not silenced; a rule cleared before has sent neither a
\* warning nor a de-warning.
\* Refuted under SpecMin: error_add multiplies (min_count - 1) by
\* timedelta(minutes=cfg.READ_LOG_EVERY_SECONDS), 30 minutes for each count.
C8_MinCountDelay ==
    \A n \in DOMAIN ERROR_LIMITS_MAX :
        LET e_dict == ERROR_LIMITS_MAX[n]
            e == e_dict.error
            k == MinCountOf(e_dict)
        IN \A i \in DOMAIN hist :
            (Fires(e, i) /\ k > 1)
            => /\ \A u \in Users :
                    /\ Warnings(i, u, e) = 0
                    /\ Recs(hist[i].E, e)[u].sendNext
                           = hist[i].t + (k - 1) * READ_LOG_EVERY_SECONDS
               /\ \A j \in DOMAIN hist :
                    ( /\ j = i + 1 /\ Cycle(j)
                      /\ hist[j].t = hist[i].t + READ_LOG_EVERY_SECONDS )
                    => \A u \in Users :
                          /\ (k = 2 /\ Above(e_dict, j)) => Warnings(j, u, e) = 1
                          /\ Below(e_dict, j)
                                => Warnings(j, u, e) = 0 /\ Dewarnings(j, u, e) = 0

----------------------------------------------------------------------------
\* C9: quiet-hour band, in cycles that no exception ends.  For a value of a
\* MaxLimit rule (no min_count) between limits[0] and limits[1]: a cycle in
\* quiet hours leaves no record and sends no warning; a cycle outside quiet
\* hours leaves the record and, when it created it, has warned every user;
\* when the rule is ON and has
\* warned outside quiet hours and the next cycle is in quiet hours with the
\* same value, the record is removed and the de-warning is marked "only for
\* quiet hours"; the de-warning of a rule cleared by a value below limits[0]
\* is not.
InBand(e_dict, i) ==
    LET x == hist[i].data[e_dict.column]
    IN IsNum(x) /\ e_dict.limits[1] < x.v /\ x.v < e_dict.limits[2]

DewarningsMarked(i, u, e, only_quiet) ==
    Cardinality({m \in DOMAIN hist[i].out :
        hist[i].out[m] = Msg("dewarning", u, e, only_quiet)})

C9_QuietBand ==
    \A n \in DOMAIN ERROR_LIMITS_MAX :
        LET e_dict == ERROR_LIMITS_MAX[n]
            e == e_dict.error
        IN \A i \in DOMAIN hist :
            (Cycle(i) /\ ~hist[i].raised /\ ~HasMinCount(e))
            => /\ (InBand(e_dict, i) /\ QuietTime(hist[i].t))
                    => ~Has(hist[i].E, e) /\ \A u \in Users : Warnings(i, u, e) = 0
               /\ (InBand(e_dict, i) /\ ~QuietTime(hist[i].t))
                    => /\ Has(hist[i].E, e)
                       /\ ~Has(hist[i].E0, e) => \A u \in Users : Warnings(i, u, e) = 1
               /\ \A j \in DOMAIN hist :
                    ( /\ Consecutive(i, j) /\ ~hist[j].raised
                      /\ InBand(e_dict, i) /\ ~QuietTime(hist[i].t)
                      /\ \A u \in Users : Recs(hist[i].E, e)[u].timesSent > 0
                      /\ QuietTime(hist[j].t)
                      /\ hist[j].data[e_dict.column] = hist[i].data[e_dict.column] )
                    => /\ ~Has(hist[j].E, e)
                       /\ \A u \in Users :
                            /\ DewarningsMarked(j, u, e, TRUE) = 1
                            /\ DewarningsMarked(j, u, e, FALSE) = 0
               /\ ( /\ Has(hist[i].E0, e)
                    /\ IsNum(hist[i].data[e_dict.column])
                    /\ hist[i].data[e_dict.column].v < e_dict.limits[1] )
                    => /\ ~Has(hist[i].E, e)
                       /\ \A u \in Users :
                            /\ DewarningsMarked(i, u, e, TRUE) = 0
                            /\ DewarningsMarked(i, u, e, FALSE)
                                   = IF Recs(hist[i].E0, e)[u].timesSent > 0 THEN 1 ELSE 0

\* the pressure rule warned before the quiet hours and was cleared "only for quiet
\* hours" by the next cycle, which read the same value
C9_Witness ==
    \E i, j \in DOMAIN hist :
        /\ Consecutive(i, j)
        /\ InBand(ERROR_LIMITS_MAX[1], i) /\ ~QuietTime(hist[i].t)
        /\ Fires("ERROR_pressure_afm", i)
        /\ QuietTime(hist[j].t)
        /\ hist[j].data[PAFM] = hist[i].data[PAFM]
        /\ ~Has(hist[j].E, "ERROR_pressure_afm")
        /\ \A u \in Users : DewarningsMarked(j, u, "ERROR_pressure_afm", TRUE) = 1

----------------------------------------------------------------------------
\* C10 as the specification states it: quiet_hours() is true exactly when the
\* weekday is in QUIET_TIMES_WEEKDAYS and QUIET_TIMES_HOURS_START <= time of
\* day < QUIET_TIMES_HOURS_END (start inclusive, end exclusive).
C10_StartInclusive ==
    \A i \in DOMAIN hist :
        Cycle(i)
        => (hist[i].i_quiet = 1
              <=> /\ Weekday(hist[i].t) \in QUIET_TIMES_WEEKDAYS
                  /\ Hours(QUIET_TIMES_HOURS_START) <= TimeOfDay(hist[i].t)
                  /\ TimeOfDay(hist[i].t) < Hours(QUIET_TIMES_HOURS_END))

\* C10, as the code has it: quiet_hours() is true exactly when the weekday is
\* in QUIET_TIMES_WEEKDAYS and QUIET_TIMES_HOURS_START < time of day <
\* QUIET_TIMES_HOURS_END (start and end exclusive); its value is a function
\* of the clock alone, and it changes nothing.
C10_QuietHours ==
    \A i \in DOMAIN hist :
        Cycle(i)
        => /\ hist[i].i_quiet = 1 <=> QuietTime(hist[i].t)
           /\ hist[i].i_quiet = (IF quiet_hours(hist[i].t) THEN 1 ELSE 0)

\* cycles ran at the start of the quiet hours of a working day (not quiet) and one
\* poll period later (quiet)
C10_Witness ==
    \E i, j \in DOMAIN hist :
        /\ Cycle(i) /\ Cycle(j)
        /\ Weekday(hist[i].t) \in QUIET_TIMES_WEEKDAYS
        /\ TimeOfDay(hist[i].t) = Hours(QUIET_TIMES_HOURS_START)
        /\ hist[i].i_quiet = 0
        /\ hist[j].t = hist[i].t + READ_LOG_EVERY_SECONDS
        /\ hist[j].i_quiet = 1

----------------------------------------------------------------------------
\* C11 as the specification states it: sentinel precedence.  When a column of
\* ERROR_LOWERTHAN reads exactly a value declared for it in
\* ERROR_LOWERTHAN_VALUES, the cycle turns ON that sentinel rule and no other
\* sentinel rule of the column, and the column is not among those that turn
\* ERROR_lowerthan ON; ERROR_lowerthan is turned ON only if some column has a
\* negative value that matches no sentinel code of the column.
LowerColumns == {ERROR_LOWERTHAN[n].column : n \in DOMAIN ERROR_LOWERTHAN}

Sentinel(e_dict, i) ==
    /\ e_dict.column \in LowerColumns
    /\ hist[i].data[e_dict.column] = Num(e_dict.value)

\* the columns of the reading with a value below bound (or equal to it, when
\* inclusive) that is no sentinel code of the column
Unmatched(i, bound, inclusive) ==
    {c \in LowerColumns :
        LET x == hist[i].data[c]
        IN /\ IsNum(x)
           /\ x.v < bound \/ (inclusive /\ x.v = bound)
           /\ ~\E j \in DOMAIN ERROR_LOWERTHAN_VALUES :
                 Sentinel(ERROR_LOWERTHAN_VALUES[j], i) /\ ERROR_LOWERTHAN_VALUES[j].column = c}

SentinelOnly(i) ==
    \A j \in DOMAIN ERROR_LOWERTHAN_VALUES :
        LET e_dict == ERROR_LOWERTHAN_VALUES[j]
        IN Sentinel(e_dict, i)
           => /\ Has(hist[i].E, e_dict.error)
              /\ \A k \in DOMAIN ERROR_LOWERTHAN_VALUES :
                    ( /\ ERROR_LOWERTHAN_VALUES[k].column = e_dict.column
                      /\ k # j )
                    => ~Fires(ERROR_LOWERTHAN_VALUES[k].error, i)
              /\ Fires(ERROR_LOWERTHAN_DEFAULT, i)
                    => \A u \in Users :
                          LET cols == Recs(hist[i].E, ERROR_LOWERTHAN_DEFAULT)[u].value.cols
                          IN \A n \in DOMAIN cols : cols[n] # e_dict.column

----------------------------------------------------------------------------
\* C12: silence.  When user U calls silence with N > 0 hours at time t while
\* rule R is ON, U's sendNext for R becomes t + N hours and the record of R is
\* kept; no poll cycle whose delivery pass runs at or before t + N hours sends
\* U a warning for R, as long as R is not cleared and U sends no other
\* command.  When U calls silence with N = 0, U's sendNext for R has passed,
\* and the cycle that follows, if it leaves R ON and no exception ends it,
\* delivers the warning for R to U.
Silence(k) == k \in DOMAIN hist /\ hist[k].kind = "silence"
SilenceFor(k) == hist[k].args[1]

C12_Silence ==
    \A k \in DOMAIN hist : \A n \in DOMAIN hist[k].E0 :
        LET e == hist[k].E0[n].error
            U == hist[k].user
        IN Silence(k)
           => /\ Has(hist[k].E, e)
              /\ SilenceFor(k) > 0
                    => /\ Recs(hist[k].E, e)[U].sendNext = hist[k].t + Hours(SilenceFor(k))
                       /\ \A j \in DOMAIN hist :
                            ( /\ k < j /\ Cycle(j)
                              /\ hist[j].t1 <= hist[k].t + Hours(SilenceFor(k))
                              /\ \A m \in (k + 1)..j :
                                    /\ Has(hist[m].E0, e) /\ Has(hist[m].E, e)
                                    /\ hist[m].user # U )
                            => Warnings(j, U, e) = 0
              /\ SilenceFor(k) = 0
                    => /\ Recs(hist[k].E, e)[U].sendNext < hist[k].t
                       /\ ( /\ k + 1 \in DOMAIN hist /\ Cycle(k + 1)
                            /\ Has(hist[k + 1].E, e) /\ ~hist[k + 1].raised )
                          => Warnings(k + 1, U, e) = 1

\* a user silenced a rule for two hours after its warning, and the cycle 90 minutes
\* later warned the other user alone
C12_Witness ==
    LET e == "ERROR_pressure_afm"
    IN /\ Len(hist) = 3 /\ Cycle(1) /\ Silence(2) /\ Cycle(3)
       /\ SilenceFor(2) = 2 /\ hist[2].user = "007"
       /\ Warnings(1, "007", e) = 1
       /\ Warnings(3, "007", e) = 0 /\ Warnings(3, "008", e) = 1

----------------------------------------------------------------------------
\* C13: silence frame.  silence_errors by user U changes nothing but U's
\* sendNext in the records that exist: the rules that have a record and their
\* order, the entries of every other user, U's timesSent and value, the
\* notification rules of all users and the save request are as they were.
C13_SilenceFrame ==
    \A k \in DOMAIN hist :
        Silence(k)
        => /\ Len(hist[k].E) = Len(hist[k].E0)
           /\ \A n \in DOMAIN hist[k].E0 :
                /\ hist[k].E[n].error = hist[k].E0[n].error
                /\ \A u \in Users :
                      LET rec == hist[k].E[n].recs[u]
                          old == hist[k].E0[n].recs[u]
                      IN /\ rec.timesSent = old.timesSent
                         /\ rec.value = old.value
                         /\ u # hist[k].user => rec.sendNext = old.sendNext
           /\ hist[k].U = hist[k].U0
           /\ hist[k].save = hist[k].save0

\* a user who has a notification rule silenced a rule that had warned both users,
\* and the sendNext of the two users differ since
C13_Witness ==
    \E k \in DOMAIN hist :
        LET e == "ERROR_pressure_afm"
        IN /\ Silence(k) /\ hist[k].user = "007" /\ SilenceFor(k) = 2
           /\ hist[k].U0 = OneRule
           /\ Has(hist[k].E0, e)
           /\ Recs(hist[k].E0, e)["007"].timesSent = 1
           /\ Recs(hist[k].E0, e)["007"].sendNext = Recs(hist[k].E0, e)["008"].sendNext
           /\ Recs(hist[k].E, e)["007"].sendNext # Recs(hist[k].E, e)["008"].sendNext

----------------------------------------------------------------------------
\* C14: user rule one-shot.  After a user has added the rule "temp < 10", the
\* first poll cycle that evaluates a reading with a temperature of 5 sends the
\* user exactly one notification of the rule and sets the rule inactive, the
\* rule keeping its place in the list; no later cycle with a temperature of 5
\* sends a notification of the rule, unless the user has re-activated it.
\* (Cycles that no exception ends.)
Notify(k) == k \in DOMAIN hist /\ hist[k].kind = "notify"

NotificationsOf(i, u, r) ==
    Cardinality({m \in DOMAIN hist[i].out :
        /\ hist[i].out[m].kind = "notification"
        /\ hist[i].out[m].user = u
        /\ hist[i].out[m].rule = r})

\* the command k has appended a rule to the list of its user
AddedRule(k) ==
    /\ Notify(k)
    /\ Len(hist[k].U[hist[k].user].notifications)
           = Len(hist[k].U0[hist[k].user].notifications) + 1

Temperature(i, v) == Cycle(i) /\ hist[i].data[TAFM] = Num(v)

C14_OneShot ==
    \A k, j \in DOMAIN hist :
        LET u == hist[k].user
            r == Len(hist[k].U[u].notifications)
        IN ( /\ AddedRule(k) /\ hist[k].args = ArgsTempBelow10
             /\ k < j /\ Temperature(j, 5) /\ ~hist[j].raised
             /\ \A m \in (k + 1)..(j - 1) : ~Temperature(m, 5) )
           => /\ hist[k].U[u].notifications[r] = TempBelow10
              /\ NotificationsOf(j, u, r) = 1
              /\ Len(hist[j].U[u].notifications) = Len(hist[j].U0[u].notifications)
              /\ hist[j].U[u].notifications[r] = [TempBelow10 EXCEPT !.active = "false"]
              /\ \A l \in DOMAIN hist :
                    ( /\ j < l /\ Temperature(l, 5)
                      /\ \A m \in (j + 1)..(l - 1) : ~Notify(m) )
                    => /\ NotificationsOf(l, u, r) = 0
                       /\ hist[l].U[u].notifications[r].active = "false"

\* the rule was added, fired in the first cycle with 5 K, did not fire in the second,
\* was re-activated and fired again
C14_Witness ==
    /\ Len(hist) = 5
    /\ AddedRule(1) /\ hist[1].args = ArgsTempBelow10
    /\ Temperature(2, 5) /\ NotificationsOf(2, "007", 1) = 1
    /\ Temperature(3, 5) /\ NotificationsOf(3, "007", 1) = 0
    /\ Notify(4) /\ hist[4].args = ArgsAct1
    /\ Temperature(5, 5) /\ NotificationsOf(5, "007", 1) = 1
    /\ USER_config["007"].notifications[1].active = "false"

----------------------------------------------------------------------------
\* C15: check_user_notifications.  In a cycle that no exception ends, a rule
\* of a registered user produces a notification (exactly one) if and only if
\* the rule is active, its column is in the reading (LOG_data, as
\* check_user_notifications finds it) with a numeric value, and the value is
\* greater than the limit for the comparison "greater", less than the limit
\* for "less" (a value equal to the limit does not fire); a rule that fired is
\* inactive afterwards, and every other rule, a rule whose column is absent or
\* not numeric among them, is as it was.
Less(a, b) ==
    LET k == IF a.k < b.k THEN a.k ELSE b.k
    IN a.m * Pow10(a.k - k) < b.m * Pow10(b.k - k)

Expected(n, data) ==
    /\ n.active # "false"
    /\ In(n.column, data) /\ IsNum(data[n.column])
    /\ LET x == Real(n.column, data[n.column].v)
       IN IF n.comparison = 1 THEN Less(n.limit, x) ELSE Less(x, n.limit)

----------------------------------------------------------------------------
\* C16: a rule to add whose text does not parse (after the special characters
\* are removed: not exactly three items, a first item that is no alias of a
\* column, a second item that is no comparator, a third item that is no
\* number) is answered with the error message of its defect and changes
\* nothing: the lists of the user and of every other user and save_config are
\* as they were.  A text that parses appends the rule to the list of the user.
Rejected(k, text) ==
    /\ hist[k].out = <<Reply(hist[k].user, text, 0)>>
    /\ ~hist[k].raised
    /\ hist[k].U = hist[k].U0
    /\ hist[k].save = hist[k].save0
    /\ hist[k].E = hist[k].E0
    /\ USER_config = hist[k].U \/ k < Len(hist)

C16_ParseFailure ==
    \A k \in DOMAIN hist :
        Notify(k)
        => /\ hist[k].args \in InputsNotThree => Rejected(k, "three_elements")
           /\ hist[k].args \in InputsBadColumn => Rejected(k, "first_element")
           /\ hist[k].args \in InputsBadComparator => Rejected(k, "second_element")
           /\ hist[k].args \in InputsBadLimit => Rejected(k, "third_element")
           /\ hist[k].args \in InputsGood =>
                /\ AddedRule(k)
                /\ \A u \in Users \ {hist[k].user} : hist[k].U[u] = hist[k].U0[u]
           /\ (hist[k].out # <<>> /\ hist[k].out[1].error
                   \in {"three_elements", "first_element", "second_element", "third_element"})
                => hist[k].U = hist[k].U0 /\ hist[k].save = hist[k].save0

\* a user who has rules sent a rule with a limit that is no number while no save
\* was requested, and was answered that the third element should be a number
C16_Witness ==
    \E k \in DOMAIN hist :
        /\ Notify(k) /\ hist[k].args \in InputsBadLimit
        /\ hist[k].U0["007"].notifications # <<>>
        /\ ~hist[k].save0
        /\ hist[k].out = <<Reply("007", "third_element", 0)>>
        /\ USER_config = hist[k].U0

----------------------------------------------------------------------------
\* C17: notification_change with a batch of distinct 1-based indices applies
\* its action (activate, deactivate, delete) to exactly the rules at those
\* positions of the list as it was that are in range; indices out of range
\* (0, negative, beyond the end) are ignored; all other rules are unchanged
\* and in their order; the number returned is the number of rules affected,
\* and "all" addresses every rule of the user.  No other user's list changes.
RECURSIVE Without(_, _, _)
Without(ns, positions, i) ==
    IF i > Len(ns) THEN <<>>
    ELSE (IF i \in positions THEN <<>> ELSE <<ns[i]>>) \o Without(ns, positions, i + 1)

Applied(ns, positions, action) ==
    IF action = "del" THEN Without(ns, positions, 1)
    ELSE [i \in DOMAIN ns |->
            IF i \in positions
            THEN [ns[i] EXCEPT !.active = IF action = "act" THEN "true" ELSE "false"]
            ELSE ns[i]]

ChangeAsStated(k, action, indices) ==
    LET u == hist[k].user
        ns == hist[k].U0[u].notifications
        positions == indices \cap DOMAIN ns
    IN /\ hist[k].U[u].notifications = Applied(ns, positions, action)
       /\ hist[k].num_changed = Cardinality(positions)
       /\ \A v \in Users \ {u} : hist[k].U[v] = hist[k].U0[v]

C17_NotificationChange ==
    \A k \in DOMAIN hist : \A a \in DOMAIN ActionKeywords :
        (Notify(k) /\ hist[k].args[1] = ActionKeywords[a].keyword)
        => /\ \A b \in DOMAIN Batches :
                Tail(hist[k].args) = Batches[b].args
                => ChangeAsStated(k, ActionKeywords[a].action, Batches[b].indices)
           /\ Tail(hist[k].args) = <<KEYWORD_ALL>>
                => ChangeAsStated(k, ActionKeywords[a].action,
                                  DOMAIN hist[k].U0[hist[k].user].notifications)

\* "del 1 2" removed both rules of a list of two different rules and returned 2;
\* the other user's rule is where it was
C17_Witness ==
    \E k \in DOMAIN hist :
        /\ Notify(k) /\ hist[k].args = <<ActionKeywords[3].keyword>> \o Batches[3].args
        /\ hist[k].U0["007"].notifications = <<TempBelow10, PressureAbove1e9>>
        /\ hist[k].num_changed = 2
        /\ USER_config["007"].notifications = <<>>
        /\ USER_config["008"].notifications = <<TempBelow10>>

----------------------------------------------------------------------------
(* Delivery failures.  FailureFree(i) is what cycle i does when no delivery *)
(* raises; the deliveries of a cycle are those of the failure-free cycle up *)
(* to the one that raises.                                                  *)
FailureFreeSanity(i) ==
    check_sanity(hist[i].E0, hist[i].data, hist[i].last, hist[i].t, hist[i].t1, 0)

FailureFree(i) ==
    LET r == FailureFreeSanity(i)
    IN IF r.exc
       THEN [U |-> hist[i].U0, save |-> hist[i].save0, out |-> r.out, exc |-> TRUE]
       ELSE check_user_notifications(hist[i].U0, hist[i].save0, r.LOG, r.out, r.n, 0)

DeliveryFailed(i) == Cycle(i) /\ hist[i].raised /\ ~FailureFree(i).exc

Undelivered(i) ==
    {m \in DOMAIN FailureFree(i).out : m > Len(hist[i].out)}

FailedOn(i, kind, user) ==
    /\ DeliveryFailed(i)
    /\ Undelivered(i) # {}
    /\ LET m == FailureFree(i).out[Len(hist[i].out) + 1]
       IN m.kind = kind /\ m.user = user

ErrorOfFailed(i) == FailureFree(i).out[Len(hist[i].out) + 1].error

Present(E) == {e \in AllErrors : Has(E, e)}

\* C18: a delivery that raises does not abort the poll cycle: all other
\* deliveries of the cycle are made, the rules marked for clearing are
\* cleared, the user-rule evaluator runs (the rules that fired are
\* deactivated) and the config is saved as in the cycle without the failure.
C18_FailureIsolated ==
    \A i \in DOMAIN hist :
        DeliveryFailed(i)
        => /\ Cardinality(Undelivered(i)) <= 1
           /\ Present(hist[i].E) = Present(FailureFreeSanity(i).E)
           /\ ~hist[i].sanity_raised
           /\ hist[i].U = FailureFree(i).U
           /\ hist[i].saved = (hist[i].save0
                               \/ differs(FailureFreeSanity(i).E, hist[i].E0))

\* C19: when the transport raises on the warning of (rule, user), sendNext of
\* that user is advanced to the time of the attempt plus the send interval,
\* and the next cycle does not send that warning again.
C19_OptimisticAdvance ==
    \A i \in DOMAIN hist, u \in Users :
        FailedOn(i, "warning", u)
        => /\ Has(hist[i].E, ErrorOfFailed(i))
           /\ Recs(hist[i].E, ErrorOfFailed(i))[u].sendNext = hist[i].t1 + SendInterval
           /\ \A j \in DOMAIN hist :
                Consecutive(i, j) => Warnings(j, u, ErrorOfFailed(i)) = 0

\* C20: when sending the de-warning of a rule marked for clearing raises, the
\* rule's record is deleted all the same, and so is the record of every other
\* rule marked for clearing in that cycle.
C20_ClearUnblocked ==
    \A i \in DOMAIN hist, u \in Users :
        FailedOn(i, "dewarning", u)
        => \A e \in AllErrors : Marked(e, i) => ~Has(hist[i].E, e)

----------------------------------------------------------------------------
\* C21: when config_save raises during a poll cycle, ERRORS_checks and the user
\* rules in memory are what they were before the save attempt, the rest of the
\* cycle runs (the evaluator delivers and deactivates as in the cycle with a
\* save that succeeds), the timer of the next cycle is running, and the next
\* cycle whose save does not raise writes the state in memory to the file.
SaveFailed(i) == Cycle(i) /\ hist[i].save_raised

C21_SaveFailure ==
    /\ timer # None
    /\ \A i \in DOMAIN hist :
        SaveFailed(i)
        => /\ hist[i].E = FailureFreeSanity(i).E
           /\ hist[i].U = FailureFree(i).U
           /\ hist[i].out = FailureFree(i).out
           /\ \A j \in DOMAIN hist :
                (Consecutive(i, j) /\ ~hist[j].save_raised) => hist[j].saved

\* C22: a record loaded from the config file whose rule is in none of the
\* configured tables is removed by the first poll cycle, no message is sent for
\* it, and the cycle raises only if its save does; after every cycle that
\* completed every record of ERRORS_checks is that of a configured rule.
UnknownLoaded(i) ==
    {hist[i].E0[k].error : k \in DOMAIN hist[i].E0} \ AllErrors

C22_UnknownPurged ==
    \A i \in DOMAIN hist :
        Cycle(i)
        => /\ \A e \in UnknownLoaded(i) :
                /\ ~Has(hist[i].E, e)
                /\ \A m \in DOMAIN hist[i].out : hist[i].out[m].error # e
           /\ (i = 1 /\ hist[i].raised) => hist[i].save_raised
           /\ ~hist[i].raised => \A k \in DOMAIN hist[i].E : hist[i].E[k].error \in AllErrors

\* the first cycle finds the loaded records of ERROR_pressure_afm and of
\* ERROR_removed, warns both users of the pressure and drops the other record
C22_Witness ==
    /\ Len(hist) >= 1 /\ Cycle(1)
    /\ UnknownLoaded(1) = {"ERROR_removed"}
    /\ Has(hist[1].E0, "ERROR_pressure_afm") /\ Has(hist[1].E, "ERROR_pressure_afm")
    /\ ~hist[1].raised /\ hist[1].saved
    /\ Warnings(1, "007", "ERROR_pressure_afm") = 1
    /\ Present(hist[1].E) = {"ERROR_pressure_afm"}
    /\ Len(hist[1].E) = 1

\* C27: the config file is written after the evaluator has run: when the
\* evaluator of a cycle deactivated a rule and no save raised, the file
\* holds the user rules as that cycle left them.
C27_SnapshotAfterEvaluator ==
    (/\ Len(hist) >= 1 /\ Cycle(Len(hist))
     /\ ~hist[Len(hist)].raised
     /\ hist[Len(hist)].U # hist[Len(hist)].U0)
    => /\ hist[Len(hist)].saved
       /\ CONFIG_file.USER_config = USER_config

----------------------------------------------------------------------------
\* C23: whatever the reading (columns missing, values nan, sentinel codes, or no
\* log line at all), no poll cycle raises: check_sanity and
\* check_user_notifications complete.
C23_DataNeverRaises ==
    \A i \in DOMAIN hist : Cycle(i) => ~hist[i].raised

\* C24: only a log read changes LOG_data: a cycle leaves the reading it found
\* as it found it (status_sensors after a warning included), and so does a chat
\* command (the status request included).
C24_ReadingImmutable ==
    \A k \in DOMAIN hist : hist[k].data1 = hist[k].data

\* C26: the evaluator of a cycle runs after check_sanity and evaluates the
\* reading that check_sanity evaluated: every rule of a user is deactivated in
\* a cycle that does not raise exactly if it was active and the reading of
\* the cycle exceeds its limit.
C26_SameReading ==
    \A i \in DOMAIN hist : \A u \in Users :
        (Cycle(i) /\ ~hist[i].raised /\ Size(hist[i].data) > 0)
        => \A r \in DOMAIN hist[i].U0[u].notifications :
             LET n == hist[i].U0[u].notifications[r]
             IN (hist[i].U[u].notifications[r].active = "false")
                <=> (n.active = "false" \/ Expected(n, hist[i].data))

\* C29: a command of a user id that is not in LIST_OF_USERS runs no handler
\* body: ERRORS_checks, the user rules and last commands, save_config and
\* LOG_data stay as they are and nothing is sent; every message of a poll
\* cycle and every reply goes to an id of LIST_OF_USERS.
Registered == {LIST_OF_USERS[n] : n \in DOMAIN LIST_OF_USERS}

C29_RegisteredOnly ==
    \A k \in DOMAIN hist :
        /\ (~Cycle(k) /\ hist[k].user \notin Registered)
           => /\ ~hist[k].served /\ ~hist[k].raised
              /\ hist[k].out = <<>>
              /\ hist[k].E = hist[k].E0
              /\ hist[k].U = hist[k].U0
              /\ hist[k].save = hist[k].save0
              /\ hist[k].data1 = hist[k].data
        /\ \A m \in DOMAIN hist[k].out : hist[k].out[m].user \in Registered

\* a cycle warned both users and notified 007; then the stranger asked to
\* silence the warnings and nothing changed
C29_Witness ==
    \E i, k \in DOMAIN hist :
        /\ Cycle(i) /\ i < k
        /\ Warnings(i, "007", "ERROR_pressure_afm") = 1
        /\ Warnings(i, "008", "ERROR_pressure_afm") = 1
        /\ \E m \in DOMAIN hist[i].out : hist[i].out[m].kind = "notification"
        /\ hist[k].kind = "silence" /\ hist[k].user = Stranger
        /\ Has(hist[k].E0, "ERROR_pressure_afm")
        /\ ERRORS_checks = hist[k].E0
        /\ hist[k].out = <<>>

----------------------------------------------------------------------------
\* C28: in the delivery pass of a cycle (one that no exception cut short) a
\* user gets a status snapshot exactly if at least one warning was delivered
\* to that user in the cycle, and then one snapshot, after the user's warnings
\* of the cycle.
Positions(i, kind, u) ==
    {m \in DOMAIN hist[i].out : hist[i].out[m].kind = kind /\ hist[i].out[m].user = u}

----------------------------------------------------------------------------
\* C30: polling never stops because of a failure inside a cycle: read_log
\* starts the timer of the next cycle first, so after every cycle that was
\* started, whatever raised in it, the timer of the next cycle is running (one
\* period after the start of the cycle) and the next cycle can start.
LastCycle(i) == Cycle(i) /\ \A j \in DOMAIN hist : j > i => ~Cycle(j)

C30_PollingGoesOn ==
    /\ timer # None
    /\ \A i \in DOMAIN hist :
           LastCycle(i) => timer = hist[i].t + READ_LOG_EVERY_SECONDS

\* a cycle raised and a later cycle was started
C30_Witness ==
    \E i, j \in DOMAIN hist :
        /\ i < j /\ Cycle(i) /\ Cycle(j)
        /\ hist[i].raised /\ hist[i].t < hist[j].t
        /\ timer = hist[j].t + READ_LOG_EVERY_SECONDS

----------------------------------------------------------------------------
\* C25: the mutations of ERRORS_checks and USER_config by the poll cycle and by
\* the chat command handlers are serialized: while a poll cycle is inside its
\* read-modify-write of USER_config (the rules that fired are known, they are
\* not yet set inactive), no command handler runs.
C25_Serialized == pending # NoPending => Len(hist) = pending.len

----------------------------------------------------------------------------
\* C38: the evaluator deactivates exactly the rules that fired, under concurrent
\* deletion: when a 'notify del' of the first user runs while the poll cycle is
\* between the loop over that user's rules and the loop that sets the rules
\* that fired inactive, the cycle raises no IndexError, and every rule it sets
\* inactive is a rule that fired.
Interleaved(i) == {j \in DOMAIN hist : hist[i].len < j /\ j < i}

DeletedInside(i) ==
    /\ Cycle(i) /\ "len" \in DOMAIN hist[i]
    /\ Interleaved(i) # {}
    /\ \A j \in Interleaved(i) :
           /\ hist[j].kind = "notify" /\ hist[j].user = LIST_OF_USERS[1]
           /\ hist[j].args[1] \in KEYWORDS_DEL /\ hist[j].num_changed > 0

SameRule(a, b) == a.column = b.column /\ a.comparison = b.comparison /\ a.limit = b.limit

C38_ExactlyFired ==
    \A i \in DOMAIN hist :
        DeletedInside(i) =>
            LET user == LIST_OF_USERS[1]
                fired == {hist[i].U0[user].notifications[hist[i].n_inactivate[m]] :
                              m \in DOMAIN hist[i].n_inactivate}
            IN /\ ~hist[i].raised
               /\ \A k \in DOMAIN hist[i].U[user].notifications :
                      (/\ hist[i].U[user].notifications[k].active = "false"
                       /\ hist[i].U1[user].notifications[k].active # "false")
                      => \E n \in fired : SameRule(n, hist[i].U[user].notifications[k])

----------------------------------------------------------------------------
\* C39: no duplicate user-rule notification after a transport failure: when the
\* transport raises while check_user_notifications delivers the notification
\* of a rule, every rule whose notification was delivered earlier in that
\* cycle is set inactive, and the next cycle does not deliver its notification
\* again.
NotifiedRules(i) ==
    {<<hist[i].out[m].user, hist[i].out[m].rule>> :
        m \in {m \in DOMAIN hist[i].out : hist[i].out[m].kind = "notification"}}

EvaluatorRaised(i) == Cycle(i) /\ hist[i].raised /\ ~hist[i].sanity_raised

C39_NoDuplicate ==
    \A i \in DOMAIN hist :
        EvaluatorRaised(i) =>
            \A ur \in NotifiedRules(i) :
                /\ hist[i].U[ur[1]].notifications[ur[2]].active = "false"
                /\ \A j \in DOMAIN hist :
                       Consecutive(i, j) => ur \notin NotifiedRules(j)

----------------------------------------------------------------------------
\* C40: activate, deactivate or delete (by index or 'all') issued by a
\* registered user who has never added a notification rule changes nothing,
\* reports 0 rules changed and raises no exception.
ChangeByNever(i) ==
    /\ hist[i].kind = "notify" /\ hist[i].served
    /\ Len(hist[i].args) > 1 /\ action_key(hist[i].args[1]) # ""
    /\ ~hist[i].U0[hist[i].user].has

C40_NothingToChange ==
    \A i \in DOMAIN hist :
        ChangeByNever(i) =>
            /\ ~hist[i].raised
            /\ hist[i].U = hist[i].U0 /\ hist[i].save = hist[i].save0
            /\ hist[i].num_changed = 0
            /\ hist[i].out = <<Reply(hist[i].user, "changed", 0)>>

----------------------------------------------------------------------------
\* C35: deleting with a repeated index is idempotent per position: 'del' with a
\* batch that names the same in-range index more than once removes the rule at
\* that position of the list as it was exactly once, and removes no other rule.
C35_RepeatedDelete ==
    \A k \in DOMAIN hist : \A b \in DOMAIN BatchesRepeat :
        (/\ Notify(k) /\ action_key(hist[k].args[1]) = "del"
         /\ Tail(hist[k].args) = BatchesRepeat[b].args)
        => LET ns == hist[k].U0[hist[k].user].notifications
           IN hist[k].U[hist[k].user].notifications =
                  Without(ns, BatchesRepeat[b].indices \cap DOMAIN ns, 1)

----------------------------------------------------------------------------
\* C36: a silence survives a restart: after silence_errors changed a sendNext
\* of a user, the next completed poll cycle writes the alert table to the
\* config file, also when that cycle changes no record itself and no save
\* was requested.
NextCycleAfter(k, j) ==
    Cycle(j) /\ k < j /\ \A m \in (k + 1)..(j - 1) : ~Cycle(m)

C36_SilenceSaved ==
    \A k, j \in DOMAIN hist :
        (/\ Silence(k) /\ hist[k].E # hist[k].E0
         /\ NextCycleAfter(k, j) /\ ~hist[j].raised)
        => hist[j].saved

----------------------------------------------------------------------------
\* C32: ERROR_lowerthan is stable while its condition persists: when two
\* consecutive poll cycles read the same values and some column has a value
\* <= 0 that matches no sentinel code, the record of ERROR_lowerthan exists
\* after both cycles and the second cycle sends no de-warning of it.
C32_DefaultStable ==
    \A i, j \in DOMAIN hist :
        (/\ Consecutive(i, j) /\ ~hist[i].raised /\ ~hist[j].raised
         /\ hist[i].data = hist[j].data
         /\ Holds(ERROR_LOWERTHAN_DEFAULT, i) /\ Holds(ERROR_LOWERTHAN_DEFAULT, j))
        => /\ Has(hist[i].E, ERROR_LOWERTHAN_DEFAULT)
           /\ Has(hist[j].E, ERROR_LOWERTHAN_DEFAULT)
           /\ \A u \in Users : Dewarnings(j, u, ERROR_LOWERTHAN_DEFAULT) = 0

----------------------------------------------------------------------------
\* C34: after every completed poll cycle at most one sentinel rule of a column
\* has a record: when the value of a column changes from one sentinel code to
\* another, the record of the old sentinel rule is cleared in the cycle in
\* which the new one fires.
SentinelsOn(E, c) ==
    {k \in DOMAIN ERROR_LOWERTHAN_VALUES :
        ERROR_LOWERTHAN_VALUES[k].column = c /\ Has(E, ERROR_LOWERTHAN_VALUES[k].error)}

C34_OneSentinel ==
    \A i \in DOMAIN hist :
        (Cycle(i) /\ ~hist[i].raised)
        => \A c \in ColumnSet : Cardinality(SentinelsOn(hist[i].E, c)) <= 1

----------------------------------------------------------------------------
\* C31: the no-log alarm: in every poll cycle that is started while the last
\* log entry read is older than WARNING_NOLOG_MINUTES (or none was ever read),
\* the record of ERROR_log_read exists at the end of the cycle, and the cycle
\* that creates it sends the warning to every registered user; a cycle that
\* reads a new log entry clears the record.
C31_NoLogAlarm ==
    \A i \in DOMAIN hist :
        Cycle(i) =>
            /\ Holds("ERROR_log_read", i)
               => /\ Has(hist[i].E, "ERROR_log_read")
                  /\ Fires("ERROR_log_read", i)
                     => \A u \in Users : Warnings(i, u, "ERROR_log_read") = 1
            /\ FreshLine(i) => ~Has(hist[i].E, "ERROR_log_read")

----------------------------------------------------------------------------
\* C33: overlapping poll cycles are safe: when a poll cycle that waits in the
\* delivery of the warning of (rule, user) is overtaken by the next cycle, that
\* warning is delivered once (the overtaking cycle does not deliver it too)
\* and timesSent of the record increases by exactly 1.
Waited(i) == Cycle(i) /\ "waited" \in DOMAIN hist[i]

Overtaken(i) == Waited(i) /\ \E j \in Interleaved(i) : Cycle(j)

C33_OverlapOnce ==
    \A i \in DOMAIN hist :
        Overtaken(i) =>
            LET w == hist[i].waited
            IN /\ \A j \in Interleaved(i) : Cycle(j) => Warnings(j, w.user, w.error) = 0
               /\ Has(hist[i].E, w.error)
                  => Recs(hist[i].E, w.error)[w.user].timesSent = w.timesSent + 1

\* C37: a silence is not lost to a concurrent delivery: when silence_errors
\* with N > 0 hours of user U runs at time t while the delivery pass of a poll
\* cycle waits in the delivery of a warning to U, then after both have
\* finished sendNext of U is at least t + N hours for every rule that had a
\* record at t.
C37_SilenceKept ==
    \A i \in DOMAIN hist :
        Waited(i) =>
            \A k \in Interleaved(i) :
                (Silence(k) /\ hist[k].served /\ hist[k].user = hist[i].waited.user
                 /\ hist[k].args[1] > 0)
                => \A e \in AllErrors :
                       (Has(hist[k].E0, e) /\ Has(hist[i].E, e))
                       => Recs(hist[i].E, e)[hist[k].user].sendNext
                              >= hist[k].t + Hours(hist[k].args[1])

====
